---- MODULE Spec2Model ----
(***************************************************************************)
(* Model of the blogging-agent pipeline: the LangGraph state graph built   *)
(* in core/graph.py, driven by PipelineRunner (core/runner.py), with the   *)
(* checkpoint store keyed by thread_id.                                     *)
(*                                                                          *)
(* A run's checkpoint holds the merged PipelineState (values), the pending *)
(* node (next) and the node that last wrote the state (last).  The stream  *)
(* loop of start/resume/retry executes one node per step and persists a    *)
(* checkpoint after each node, so readers (get_status, get_state) can see  *)
(* every intermediate checkpoint.                                           *)
(***************************************************************************)
EXTENDS Integers, Sequences, FiniteSets, TLC

VARIABLES ckpt, phase, outcome, event, hist, started

vars == <<ckpt, phase, outcome, event, hist, started>>

-----------------------------------------------------------------------------
(* Program constants and model bounds *)

MAX_REWRITE_ATTEMPTS == 3

\* cap on counted writer completions of one run (history counter)
MaxWriterRuns == 6

\* cap on counted publish executions of one run (history counter)
MaxPublishRuns == 2

\* thread ids: StartIds can be minted by start(); the others are ids that
\* no start() ever returned
StartIds == {"r1"}
AllIds == {"r1", "zz"}

Languages == {"ko-only", "en-only", "both"}

-----------------------------------------------------------------------------
(* PipelineState: a mapping from field names to values; a missing key is   *)
(* the empty tuple, a present key a one-element tuple.                      *)

Fields == {"sources", "blog_config", "rewrite_count", "current_step",
           "research_summary", "outline", "outline_decision",
           "outline_human_notes", "draft_ko", "fact_check", "fact_check_diff",
           "critic_feedback", "draft_en", "edited_draft_ko", "edited_draft_en",
           "seo_metadata_ko", "seo_metadata_en", "final_post_ko",
           "final_post_en", "publish_decision", "publish_targets",
           "blog_url_ko", "blog_url_en"}

EmptyState == [f \in Fields |-> << >>]

Has(s, f) == s[f] # << >>

\* dict.get(key, default)
Get(s, f, d) == IF Has(s, f) THEN s[f][1] ELSE d

\* variant: the update replaces the stored state
Merge_replace(s, u) ==
    [f \in Fields |-> IF f \in DOMAIN u THEN <<u[f]>> ELSE << >>]

\* field-by-field overlay of a partial update on the stored state
Merge(s, u) == [f \in Fields |-> IF f \in DOMAIN u THEN <<u[f]>> ELSE s[f]]

\* BlogConfig() default of output_language
DefaultLanguage == "both"

output_language(s) == Get(s, "blog_config", DefaultLanguage)

-----------------------------------------------------------------------------
(* Routing functions *)

END == "__end__"
START == "__start__"

\* variant: only APPROVE lets the writer run
route_after_outline_review_edit(s) ==
    IF Get(s, "outline_decision", "APPROVE") = "APPROVE" THEN "writer" ELSE END

route_after_outline_review(s) ==
    IF Get(s, "outline_decision", "APPROVE") = "REJECT" THEN END ELSE "writer"

\* variant: the translator is skipped for every language setting
forward_after_critic_skip(s) ==
    IF output_language(s) # "__none__" THEN "editor" ELSE "translator"

\* variant: the translator runs only when both languages are wanted
forward_after_critic_both(s) ==
    IF output_language(s) # "both" THEN "editor" ELSE "translator"

forward_after_critic(s) ==
    IF output_language(s) = "ko-only" THEN "editor" ELSE "translator"

\* variant: a missing critic_feedback counts as a FAIL
route_after_critic_nofb(s) ==
    IF (~Has(s, "critic_feedback")
           \/ s["critic_feedback"][1].verdict = "FAIL")
          /\ Get(s, "rewrite_count", 0) < MAX_REWRITE_ATTEMPTS
    THEN "writer"
    ELSE forward_after_critic(s)

\* variant: the ceiling test admits rewrite_count = MAX_REWRITE_ATTEMPTS
route_after_critic_le(s) ==
    IF Has(s, "critic_feedback") /\ s["critic_feedback"][1].verdict = "FAIL"
          /\ Get(s, "rewrite_count", 0) <= MAX_REWRITE_ATTEMPTS
    THEN "writer"
    ELSE forward_after_critic(s)

route_after_critic(s) ==
    IF Has(s, "critic_feedback") /\ s["critic_feedback"][1].verdict = "FAIL"
          /\ Get(s, "rewrite_count", 0) < MAX_REWRITE_ATTEMPTS
    THEN "writer"
    ELSE forward_after_critic(s)

route_after_publish_review(s) ==
    IF Get(s, "publish_decision", "APPROVE") = "REJECT" THEN END ELSE "publish"

-----------------------------------------------------------------------------
(* Graph *)

Nodes == {"research_planner", "outline_review", "writer", "fact_checker",
          "critic", "translator", "editor", "seo_optimizer",
          "publish_review", "publish"}

\* variant: the graph pauses before publish_review only
interrupt_before_publish == {"publish_review"}

interrupt_before == {"outline_review", "publish_review"}

\* variant: the editor is wired straight to publish_review
Edges_noseo(n, s) ==
    CASE n = START -> "research_planner"
      [] n = "research_planner" -> "outline_review"
      [] n = "outline_review" -> route_after_outline_review(s)
      [] n = "writer" -> "fact_checker"
      [] n = "fact_checker" -> "critic"
      [] n = "critic" -> route_after_critic(s)
      [] n = "translator" -> "editor"
      [] n = "editor" -> "publish_review"
      [] n = "seo_optimizer" -> "publish_review"
      [] n = "publish_review" -> route_after_publish_review(s)
      [] n = "publish" -> END

\* node (or START) n has completed with merged state s: the node to run next
Edges(n, s) ==
    CASE n = START -> "research_planner"
      [] n = "research_planner" -> "outline_review"
      [] n = "outline_review" -> route_after_outline_review(s)
      [] n = "writer" -> "fact_checker"
      [] n = "fact_checker" -> "critic"
      [] n = "critic" -> route_after_critic(s)
      [] n = "translator" -> "editor"
      [] n = "editor" -> "seo_optimizer"
      [] n = "seo_optimizer" -> "publish_review"
      [] n = "publish_review" -> route_after_publish_review(s)
      [] n = "publish" -> END

-----------------------------------------------------------------------------
(* Node functions: the partial update a node returns on state s.  LLM      *)
(* output is abstracted: a draft is identified by its version number, a    *)
(* fact check and a critic feedback by the draft they were made from.      *)

Verdicts == {"PASS", "FAIL"}

\* keys a node reads with state[...] (KeyError when missing)
Requires(n, s) ==
    CASE n = "research_planner" -> {"sources"}
      [] n = "writer" -> IF Has(s, "critic_feedback")
                         THEN {"outline", "draft_ko"} ELSE {"outline"}
      [] n = "fact_checker" -> {"draft_ko", "sources"}
      [] n = "critic" -> {"draft_ko", "outline", "fact_check"}
      [] n = "translator" -> {"draft_ko"}
      [] n = "seo_optimizer" -> {"outline"}
      [] OTHER -> {}

\* nodes whose body calls the LLM or does file/git I/O and so can raise
CanRaise == Nodes \ {"outline_review", "publish_review"}

research_planner_node(s) ==
    ("research_summary" :> s["sources"][1]) @@ ("outline" :> s["sources"][1])
        @@ ("current_step" :> "research_planner")

outline_review_node(s) == << >>

\* variant: a rewrite counts twice
writer_node_inc2(s, ver) ==
    LET is_rewrite == Has(s, "critic_feedback")
        rewrite_count == Get(s, "rewrite_count", 0)
    IN  ("draft_ko" :> ver)
        @@ ("rewrite_count" :> IF is_rewrite THEN rewrite_count + 2 ELSE 0)
        @@ ("current_step" :> "writer")

\* variant: a rewrite leaves rewrite_count as it was
writer_node_noinc(s, ver) ==
    LET is_rewrite == Has(s, "critic_feedback")
        rewrite_count == Get(s, "rewrite_count", 0)
    IN  ("draft_ko" :> ver)
        @@ ("rewrite_count" :> IF is_rewrite THEN rewrite_count ELSE 0)
        @@ ("current_step" :> "writer")

\* variant: the initial write is counted as a rewrite too
writer_node_keep(s, ver) ==
    LET is_rewrite == Has(s, "critic_feedback")
        rewrite_count == Get(s, "rewrite_count", 0)
    IN  ("draft_ko" :> ver)
        @@ ("rewrite_count" :> rewrite_count + 1)
        @@ ("current_step" :> "writer")

writer_node(s, ver) ==
    LET is_rewrite == Has(s, "critic_feedback")
        rewrite_count == Get(s, "rewrite_count", 0)
    IN  ("draft_ko" :> ver)
        @@ ("rewrite_count" :> IF is_rewrite THEN rewrite_count + 1 ELSE 0)
        @@ ("current_step" :> "writer")

\* variant: a fact_check already in state is kept as the new result
fact_checker_node_stale(s) ==
    LET result == ("fact_check" :> IF Has(s, "fact_check")
                                   THEN s["fact_check"][1]
                                   ELSE s["draft_ko"][1])
                    @@ ("current_step" :> "fact_checker")
    IN  IF Has(s, "fact_check")
        THEN result @@ ("fact_check_diff" :> s["draft_ko"][1])
        ELSE result

fact_checker_node(s) ==
    LET result == ("fact_check" :> s["draft_ko"][1])
                    @@ ("current_step" :> "fact_checker")
    IN  IF Has(s, "fact_check")
        THEN result @@ ("fact_check_diff" :> s["draft_ko"][1])
        ELSE result

critic_node(s, v) ==
    ("critic_feedback" :> [verdict |-> v, draft |-> s["draft_ko"][1]])
        @@ ("current_step" :> "critic")

\* variant: the translation is stored over the Korean draft
translator_node_ko(s) ==
    ("draft_ko" :> s["draft_ko"][1]) @@ ("current_step" :> "translator")

translator_node(s) ==
    ("draft_en" :> s["draft_ko"][1]) @@ ("current_step" :> "translator")

\* variant: the Korean draft is edited whatever the output language
editor_node_always(s) ==
    LET r0 == ("current_step" :> "editor")
        r1 == IF Has(s, "draft_ko")
              THEN r0 @@ ("edited_draft_ko" :> s["draft_ko"][1]) ELSE r0
    IN  IF Has(s, "draft_en")
        THEN r1 @@ ("edited_draft_en" :> s["draft_en"][1]) ELSE r1

editor_node(s) ==
    LET r0 == ("current_step" :> "editor")
        r1 == IF Has(s, "draft_ko") /\ output_language(s) # "en-only"
              THEN r0 @@ ("edited_draft_ko" :> s["draft_ko"][1]) ELSE r0
    IN  IF Has(s, "draft_en")
        THEN r1 @@ ("edited_draft_en" :> s["draft_en"][1]) ELSE r1

seo_optimizer_node(s) ==
    LET r0 == ("current_step" :> "seo_optimizer")
        r1 == IF Has(s, "edited_draft_ko")
              THEN r0 @@ ("seo_metadata_ko" :> s["edited_draft_ko"][1])
                      @@ ("final_post_ko" :> s["edited_draft_ko"][1])
              ELSE r0
    IN  IF Has(s, "edited_draft_en")
        THEN r1 @@ ("seo_metadata_en" :> s["edited_draft_en"][1])
                @@ ("final_post_en" :> s["edited_draft_en"][1])
        ELSE r1

publish_review_node(s) == << >>

\* outcome of one call of the publisher or of save_posts
CallResults == {"ok", "PublishError", "raise"}

\* the outcomes the calls of one publish_node execution would have
PublishOutcomes ==
    [ko : CallResults, en : CallResults, commit : CallResults,
     save : {"ok", "raise"}]

NoOutcome == [ko |-> "ok", en |-> "ok", commit |-> "ok", save |-> "ok"]

\* what one execution of publish_node did
NoPub == [calls |-> [l \in {"ko", "en"} |-> 0], urls |-> {}, commits |-> 0,
          saves |-> 0, caught |-> FALSE, raised |-> FALSE, pushed |-> FALSE,
          update |-> << >>]

\* the body publish_node would publish for language l
post_body(s, l) ==
    IF Has(s, "final_post_" \o l) THEN s["final_post_" \o l]
    ELSE s["edited_draft_" \o l]

\* the languages publish_node calls publish_post for when nothing fails:
\* targets with publish=True on github_pages and a non-empty body
jekyll_targets(s) ==
    { l \in Get(s, "publish_targets", {}) : post_body(s, l) # << >> }

\* variant: a caught PublishError ends the node before save_posts
publish_node_nosave(s, po) ==
    LET want == jekyll_targets(s)
        ko_called == "ko" \in want
        ko_ok == ko_called /\ po.ko = "ok"
        en_called == "en" \in want /\ (ko_called => ko_ok)
        en_ok == en_called /\ po.en = "ok"
        urls == {l \in {"ko", "en"} :
                   (l = "ko" /\ ko_ok) \/ (l = "en" /\ en_ok)}
        loop_out == IF ko_called /\ ~ko_ok THEN po.ko
                    ELSE IF en_called /\ ~en_ok THEN po.en
                    ELSE "ok"
        commit_called == loop_out = "ok" /\ urls # {}
        try_out == IF commit_called THEN po.commit ELSE loop_out
        save_called == try_out = "ok"
        raised == try_out = "raise" \/ (save_called /\ po.save = "raise")
        r0 == ("current_step" :> "publish")
        r1 == IF "ko" \in urls
              THEN r0 @@ ("blog_url_ko" :> post_body(s, "ko")[1]) ELSE r0
        r2 == IF "en" \in urls
              THEN r1 @@ ("blog_url_en" :> post_body(s, "en")[1]) ELSE r1
    IN  [calls |-> [l \in {"ko", "en"} |->
                      IF (l = "ko" /\ ko_called) \/ (l = "en" /\ en_called)
                      THEN 1 ELSE 0],
         urls |-> urls,
         commits |-> IF commit_called THEN 1 ELSE 0,
         saves |-> IF save_called THEN 1 ELSE 0,
         caught |-> try_out = "PublishError",
         raised |-> raised,
         pushed |-> commit_called /\ po.commit = "ok",
         update |-> IF raised THEN << >> ELSE r2]

\* publish_node on state s when its calls have the outcomes po: the loop
\* over the targets (ko before en), one commit_and_push after the loop,
\* PublishError caught around both, then save_posts
publish_node(s, po) ==
    LET want == jekyll_targets(s)
        ko_called == "ko" \in want
        ko_ok == ko_called /\ po.ko = "ok"
        en_called == "en" \in want /\ (ko_called => ko_ok)
        en_ok == en_called /\ po.en = "ok"
        urls == {l \in {"ko", "en"} :
                   (l = "ko" /\ ko_ok) \/ (l = "en" /\ en_ok)}
        loop_out == IF ko_called /\ ~ko_ok THEN po.ko
                    ELSE IF en_called /\ ~en_ok THEN po.en
                    ELSE "ok"
        commit_called == loop_out = "ok" /\ urls # {}
        try_out == IF commit_called THEN po.commit ELSE loop_out
        save_called == try_out # "raise"
        raised == try_out = "raise" \/ (save_called /\ po.save = "raise")
        r0 == ("current_step" :> "publish")
        r1 == IF "ko" \in urls
              THEN r0 @@ ("blog_url_ko" :> post_body(s, "ko")[1]) ELSE r0
        r2 == IF "en" \in urls
              THEN r1 @@ ("blog_url_en" :> post_body(s, "en")[1]) ELSE r1
    IN  [calls |-> [l \in {"ko", "en"} |->
                      IF (l = "ko" /\ ko_called) \/ (l = "en" /\ en_called)
                      THEN 1 ELSE 0],
         urls |-> urls,
         commits |-> IF commit_called THEN 1 ELSE 0,
         saves |-> IF save_called THEN 1 ELSE 0,
         caught |-> try_out = "PublishError",
         raised |-> raised,
         pushed |-> commit_called /\ po.commit = "ok",
         update |-> IF raised THEN << >> ELSE r2]

\* the update of node n on state s; v is the critic's verdict, ver the
\* version number of the draft the writer produces and po the outcomes of
\* the publisher's calls
NodeUpdate(n, s, v, ver, po) ==
    CASE n = "research_planner" -> research_planner_node(s)
      [] n = "outline_review" -> outline_review_node(s)
      [] n = "writer" -> writer_node(s, ver)
      [] n = "fact_checker" -> fact_checker_node(s)
      [] n = "critic" -> critic_node(s, v)
      [] n = "translator" -> translator_node(s)
      [] n = "editor" -> editor_node(s)
      [] n = "seo_optimizer" -> seo_optimizer_node(s)
      [] n = "publish_review" -> publish_review_node(s)
      [] n = "publish" -> publish_node(s, po).update

-----------------------------------------------------------------------------
(* Checkpoint store and runner *)

\* the snapshot of a thread id the store holds nothing for
\* variant: the saver keeps one snapshot for all thread ids
put_shared(store, r, c) ==
    [x \in DOMAIN store |-> IF x = r \/ store[x].exists THEN c ELSE store[x]]

\* the checkpointer stores snapshot c under thread id r
put(store, r, c) == [store EXCEPT ![r] = c]

NoCkpt == [exists |-> FALSE, values |-> EmptyState, next |-> "none",
           last |-> "none"]

HITL_NODES == {"outline_review", "publish_review"}

NoStatus == [is_interrupted |-> FALSE, is_stuck |-> FALSE,
             next_node |-> "none", current_step |-> "none"]

\* variant: every pending node counts as stuck
get_status_anypending(c) ==
    LET next_node == c.next
        is_hitl_pause == next_node \in HITL_NODES
    IN  [is_interrupted |-> is_hitl_pause,
         is_stuck |-> (next_node # "none"),
         next_node |-> next_node,
         current_step |-> Get(c.values, "current_step", "unknown")]

\* PipelineRunner.get_status on the snapshot c
get_status(c) ==
    LET next_node == c.next
        is_hitl_pause == next_node \in HITL_NODES
    IN  [is_interrupted |-> is_hitl_pause,
         is_stuck |-> (next_node # "none") /\ ~is_hitl_pause,
         next_node |-> next_node,
         current_step |-> Get(c.values, "current_step", "unknown")]

\* PipelineRunner.get_state on the snapshot c
get_state(c) == c.values

Event(kind, id, node, res, st) ==
    [kind |-> kind, id |-> id, node |-> node, res |-> res, status |-> st,
     pub |-> NoPub]

\* the event of node n executed on state s with publisher outcomes po
NodeEvent(id, n, res, s, po) ==
    [Event("node", id, n, res, NoStatus) EXCEPT
        !.pub = IF n = "publish" THEN publish_node(s, po) ELSE NoPub]

\* the publisher outcomes to consider for node n on state s: one outcome
\* for every call the execution makes
OutcomesOf(n, s) ==
    IF n = "publish"
    THEN { po \in PublishOutcomes :
             LET e == publish_node(s, po)
             IN  /\ e.calls["ko"] = 0 => po.ko = "ok"
                 /\ e.calls["en"] = 0 => po.en = "ok"
                 /\ e.commits = 0 => po.commit = "ok"
                 /\ e.saves = 0 => po.save = "ok" }
    ELSE {NoOutcome}

\* how often each external effect of publishing has been performed in a
\* run: a publish_post that returned, per language, and a commit_and_push
\* that returned; counted up to 2
NoEffects == [ko |-> 0, en |-> 0, commit |-> 0]

\* the effects after one more execution p of publish_node
Performed(effects, p) ==
    LET Up(n, done) == IF done /\ n < 2 THEN n + 1 ELSE n
    IN  [ko |-> Up(effects.ko, "ko" \in p.urls),
         en |-> Up(effects.en, "en" \in p.urls),
         commit |-> Up(effects.commit, p.pushed)]

NoHist == [writer |-> 0, publish |-> 0, outline_ok |-> FALSE,
           publish_ok |-> FALSE, rejected |-> FALSE, failed |-> "none",
           call |-> "none", handed |-> FALSE, translator |-> 0,
           owner |-> [f \in Fields |-> "none"], second |-> "none",
           effects |-> NoEffects]

\* the step that wrote each field last, after step w has written update u
Owners(owner, u, w) ==
    [f \in Fields |-> IF f \in DOMAIN u THEN w ELSE owner[f]]

Init ==
    /\ ckpt = [r \in AllIds |-> NoCkpt]
    /\ phase = [r \in AllIds |-> "none"]
    /\ outcome = [r \in AllIds |-> "none"]
    /\ event = Event("init", "none", "none", "none", NoStatus)
    /\ hist = [r \in AllIds |-> NoHist]
    /\ started = {}

-----------------------------------------------------------------------------
(* Inputs *)

\* human_input of the outline gate (main.py _review_outline, web form)
OutlineInputs ==
    { ("outline_decision" :> "APPROVE") @@ ("outline_human_notes" :> ""),
      ("outline_decision" :> "EDIT") @@ ("outline_human_notes" :> "notes"),
      ("outline_decision" :> "REJECT") @@ ("outline_human_notes" :> "") }

\* human_input of the publish gate (main.py _review_publish, web form)
PublishInputs ==
    { ("publish_decision" :> "APPROVE") @@ ("publish_targets" :> t) :
        t \in SUBSET {"ko", "en"} }
    \cup { ("publish_decision" :> "REJECT") @@ ("publish_targets" :> {}) }

HumanInputs == OutlineInputs \cup PublishInputs

\* human_input used with a thread id that no start() returned
UnknownInputs ==
    { ("outline_decision" :> "APPROVE") @@ ("outline_human_notes" :> "") }

UnknownIds == AllIds \ StartIds

-----------------------------------------------------------------------------
(* The stream loop: where it stands after the pending node became nx *)

\* Pregel loop: stop when nothing is pending, stop before a node of
\* interrupt_before once a step has run, otherwise go on
AfterStep(nx) ==
    IF nx = END THEN "done"
    ELSE IF nx \in interrupt_before THEN "interrupt"
    ELSE "running"

\* stream(None, config) on an existing thread: resuming marks the pending
\* interrupt as seen, so the first pending node runs whatever it is
AfterResume(nx) == IF nx = "none" THEN "done" ELSE "running"

Pending(nx) == IF nx = END THEN "none" ELSE nx

CallOutcome(ph) == IF ph = "running" THEN "pending" ELSE "returned"

-----------------------------------------------------------------------------
(* Runner operations *)

\* PipelineRunner.start: a fresh thread id, the seeded state, then the
\* stream loop
Start(r, lang) ==
    /\ r \notin started
    /\ ~ckpt[r].exists
    /\ LET seed == ("sources" :> r) @@ ("blog_config" :> lang)
                     @@ ("rewrite_count" :> 0) @@ ("current_step" :> "started")
       IN  /\ ckpt' = put(ckpt, r,
                          [exists |-> TRUE, values |-> Merge(EmptyState, seed),
                           next |-> Edges(START, seed), last |-> START])
           /\ hist' = [hist EXCEPT ![r].call = "start",
                                   ![r].owner = Owners(@, seed, "start")]
    /\ phase' = [phase EXCEPT ![r] = "running"]
    /\ outcome' = [outcome EXCEPT ![r] = "pending"]
    /\ started' = started \cup {r}
    /\ event' = Event("start", r, "none", "pending", NoStatus)

\* one step of the stream loop: the pending node runs and returns its
\* update, which is merged and checkpointed with the next pending node; the
\* history of publishing effects is kept when track is set
NodeStep(r, V, track) ==
    /\ phase[r] = "running"
    /\ LET c == ckpt[r]
           n == c.next
       IN  /\ n \in Nodes
           /\ \A f \in Requires(n, c.values) : Has(c.values, f)
           /\ n = "writer" => hist[r].writer < MaxWriterRuns
           /\ n = "publish" => hist[r].publish < MaxPublishRuns
           /\ \E v \in V, po \in OutcomesOf(n, c.values) :
                LET u == NodeUpdate(n, c.values, v, hist[r].writer + 1, po)
                    s2 == Merge(c.values, u)
                    nx == Edges(n, s2)
                    ph == AfterStep(nx)
                IN  /\ n = "publish" => ~publish_node(c.values, po).raised
                    /\ ckpt' = put(ckpt, r,
                                   [exists |-> TRUE, values |-> s2,
                                    next |-> Pending(nx), last |-> n])
                    /\ phase' = [phase EXCEPT ![r] = ph]
                    /\ outcome' = [outcome EXCEPT ![r] = CallOutcome(ph)]
                    /\ hist' = [hist EXCEPT
                          ![r].writer = IF n = "writer" THEN @ + 1 ELSE @,
                          ![r].publish = IF n = "publish" THEN @ + 1 ELSE @,
                          ![r].translator =
                             IF n = "translator" THEN @ + 1 ELSE @,
                          ![r].rejected = @ \/ (n \in HITL_NODES /\ nx = END),
                          ![r].failed = "none",
                          ![r].owner = Owners(@, u, n),
                          ![r].call = IF ph = "running" THEN @ ELSE "none",
                          ![r].handed = @ \/ (ph # "running"
                                                /\ hist[r].call = "start"),
                          ![r].effects =
                             IF track /\ n = "publish"
                             THEN Performed(@, publish_node(c.values, po))
                             ELSE @]
                    /\ event' = NodeEvent(r, n, "ok", c.values, po)
    /\ UNCHANGED started

NodeOkV(r, V) == NodeStep(r, V, FALSE)

NodeOk(r) == NodeOkV(r, Verdicts)

\* variant: the raising node's step name is merged before the exception
OnRaise_partial(c) ==
    [c EXCEPT !.values = Merge(@, ("current_step" :> c.next))]

\* variant: the raising node is taken as done and its successor is pending
OnRaise_skip(c) == [c EXCEPT !.next = Pending(Edges(c.next, c.values))]

\* a raising node contributes nothing: the checkpoint stays as it was
OnRaise(c) == c

\* one step of the stream loop: the pending node raises; nothing is merged,
\* no checkpoint is written and the exception leaves stream(); the history
\* of publishing effects is kept when track is set
NodeFail(r, track) ==
    /\ phase[r] = "running"
    /\ LET c == ckpt[r]
           n == c.next
       IN  /\ n \in Nodes
           /\ \/ n \in CanRaise
              \/ \E f \in Requires(n, c.values) : ~Has(c.values, f)
           /\ \E po \in OutcomesOf(n, c.values) :
                 /\ n = "publish" => publish_node(c.values, po).raised
                 /\ event' = NodeEvent(r, n, "raised", c.values, po)
                 /\ hist' = [hist EXCEPT
                       ![r].failed = n, ![r].call = "none",
                       ![r].effects =
                          IF track /\ n = "publish"
                          THEN Performed(@, publish_node(c.values, po))
                          ELSE @]
    /\ ckpt' = put(ckpt, r, OnRaise(ckpt[r]))
    /\ phase' = [phase EXCEPT ![r] = "error"]
    /\ outcome' = [outcome EXCEPT ![r] = "raised"]
    /\ UNCHANGED started

NodeRaise(r) == NodeFail(r, FALSE)

\* graph.update_state(config, human_input): the update is applied as if the
\* node that last wrote the state had returned it, and that node's edges
\* are evaluated again on the merged state
update_state(c, human_input) ==
    LET as_node == IF c.exists THEN c.last ELSE START
        merged == Merge(c.values, human_input)
    IN  [exists |-> TRUE, values |-> merged,
         next |-> Pending(Edges(as_node, merged)), last |-> as_node]

\* PipelineRunner.resume
Resume(r, human_input) ==
    /\ phase[r] # "running"
    /\ LET c2 == update_state(ckpt[r], human_input)
           ph == AfterResume(c2.next)
       IN  /\ ckpt' = put(ckpt, r, c2)
           /\ phase' = [phase EXCEPT ![r] = ph]
           /\ outcome' = [outcome EXCEPT ![r] = CallOutcome(ph)]
           /\ event' = Event("resume", r, "none", CallOutcome(ph), NoStatus)
    /\ hist' = [hist EXCEPT
          ![r].outline_ok = @ \/ ("outline_decision" \in DOMAIN human_input
                  /\ human_input["outline_decision"] \in {"APPROVE", "EDIT"}),
          ![r].publish_ok = @ \/ ("publish_decision" \in DOMAIN human_input
                  /\ human_input["publish_decision"] = "APPROVE"
                  /\ phase[r] = "interrupt"
                  /\ ckpt[r].next = "publish_review"),
          ![r].failed = "none",
          ![r].owner = Owners(@, human_input, "resume")]
    /\ UNCHANGED started

\* PipelineRunner.retry: stream(None, config) with no new state
Retry(r) ==
    /\ phase[r] # "running"
    /\ IF ckpt[r].exists
       THEN LET ph == AfterResume(ckpt[r].next)
            IN  /\ phase' = [phase EXCEPT ![r] = ph]
                /\ outcome' = [outcome EXCEPT ![r] = CallOutcome(ph)]
                /\ event' = Event("retry", r, "none", CallOutcome(ph), NoStatus)
       ELSE \* no checkpoint and no input: the loop raises EmptyInputError
            /\ outcome' = [outcome EXCEPT ![r] = "raised"]
            /\ event' = Event("retry", r, "none", "raised", NoStatus)
            /\ UNCHANGED phase
    /\ UNCHANGED <<ckpt, hist, started>>

\* PipelineRunner.get_status, for any thread id
GetStatus(r) ==
    /\ event' = Event("get_status", r, "none", "ok", get_status(ckpt[r]))
    /\ UNCHANGED <<ckpt, phase, outcome, hist, started>>

\* PipelineRunner.get_state, for any thread id
GetState(r) ==
    /\ event' = Event("get_state", r, "none", "ok", NoStatus)
    /\ UNCHANGED <<ckpt, phase, outcome, hist, started>>

\* every operation on a started run, reads on a thread id before and after
\* start() has minted it
Next ==
    \/ \E r \in StartIds, lang \in Languages : Start(r, lang)
    \/ \E r \in AllIds : NodeOk(r)
    \/ \E r \in AllIds : NodeRaise(r)
    \/ \E r \in started, h \in HumanInputs : Resume(r, h)
    \/ \E r \in started : Retry(r)
    \/ \E r \in StartIds : GetStatus(r)
    \/ \E r \in StartIds : GetState(r)

Spec == Init /\ [][Next]_vars

\* type correctness of the runner's bookkeeping
TypeOK ==
    /\ \A r \in AllIds :
          /\ phase[r] \in {"none", "running", "interrupt", "error", "done"}
          /\ outcome[r] \in {"none", "pending", "returned", "raised"}
          /\ ckpt[r].next \in Nodes \cup {"none"}
          /\ ckpt[r].last \in Nodes \cup {START, "none"}
    /\ started \subseteq AllIds

-----------------------------------------------------------------------------
(* Properties of the runs *)

IsNodeEvent(r) == event.kind = "node" /\ event.id = r

rewrite_count(r) == Get(ckpt[r].values, "rewrite_count", 0)

verdict(r) ==
    IF Has(ckpt[r].values, "critic_feedback")
    THEN ckpt[r].values["critic_feedback"][1].verdict ELSE "none"

\* C1: in every run the writer completes at most MAX_REWRITE_ATTEMPTS + 1
\* times, and a critic evaluation that ends in FAIL with rewrite_count at
\* the ceiling routes forward (translator or editor), not back to writer.
C1_BoundedRewrites ==
    \A r \in AllIds :
       /\ hist[r].writer <= MAX_REWRITE_ATTEMPTS + 1
       /\ (IsNodeEvent(r) /\ event.node = "critic" /\ event.res = "ok"
             /\ verdict(r) = "FAIL"
             /\ rewrite_count(r) >= MAX_REWRITE_ATTEMPTS)
          => ckpt[r].next \in {"translator", "editor"}

\* the critic fails the third rewrite and the run goes forward
C1_Witness ==
    /\ hist["r1"].writer = MAX_REWRITE_ATTEMPTS + 1
    /\ IsNodeEvent("r1") /\ event.node = "critic" /\ event.res = "ok"
    /\ verdict("r1") = "FAIL"
    /\ rewrite_count("r1") = MAX_REWRITE_ATTEMPTS
    /\ ckpt["r1"].next \in {"translator", "editor"}

\* C2: the writer node executes in a run only after resume() injected an
\* outline decision of APPROVE or EDIT into that run.
C2_OutlineGate ==
    \A r \in AllIds :
       (IsNodeEvent(r) /\ event.node = "writer") => hist[r].outline_ok

\* C3: the publish node executes in a run only after resume() injected
\* publish_decision = APPROVE while the run was paused before
\* publish_review.
C3_PublishGate ==
    \A r \in AllIds :
       (IsNodeEvent(r) /\ event.node = "publish") => hist[r].publish_ok

\* C4: once a gate node has routed a run to END on a REJECT decision, no
\* node of that run executes again and its checkpoint stays in the store.
C4_RejectTerminal ==
    [][\A r \in AllIds :
          hist[r].rejected =>
             /\ ~(event'.kind = "node" /\ event'.id = r)
             /\ ckpt'[r].exists]_vars

\* C7: get_status reports a run paused before a HITL node as interrupted
\* and not stuck, a run halted by a node exception as stuck and not
\* interrupted, a terminal run as neither, and never both flags at once.
C7_StatusClassification ==
    event.kind = "get_status" =>
       LET st == event.status
           ph == phase[event.id]
       IN  /\ ph = "interrupt" => (st.is_interrupted /\ ~st.is_stuck)
           /\ ph = "error" => (~st.is_interrupted /\ st.is_stuck)
           /\ ph = "done" => (~st.is_interrupted /\ ~st.is_stuck)
           /\ ~(st.is_interrupted /\ st.is_stuck)

\* get_status on a run that a REJECT decision ended
C7_Witness ==
    /\ event.kind = "get_status" /\ event.id = "r1"
    /\ phase["r1"] = "done" /\ hist["r1"].rejected
    /\ ~event.status.is_interrupted /\ ~event.status.is_stuck

\* C8: whenever get_status reports is_stuck, the run has halted on a node
\* exception, also when the call is made while a start/resume/retry of the
\* run is executing.
C8_StuckMeansHalted ==
    (event.kind = "get_status" /\ event.status.is_stuck)
       => phase[event.id] = "error"

\* C10: a raising node leaves the checkpoint as it was with the raising
\* node still pending, the exception reaches the caller of
\* start/resume/retry, and while the run is halted no node of it executes.
C10_NodeFailure ==
    [][\A r \in AllIds :
          /\ (event'.kind = "node" /\ event'.id = r /\ event'.res = "raised")
                => /\ ckpt'[r] = ckpt[r]
                   /\ ckpt'[r].next = event'.node
                   /\ outcome'[r] = "raised"
                   /\ phase'[r] = "error"
          /\ phase[r] = "error"
                => ~(event'.kind = "node" /\ event'.id = r)]_vars

\* the fact checker raises after the writer's second draft was checkpointed
C10_Witness ==
    /\ IsNodeEvent("r1") /\ event.res = "raised"
    /\ event.node = "fact_checker"
    /\ ckpt["r1"].values["draft_ko"] = <<2>>
    /\ phase["r1"] = "error" /\ outcome["r1"] = "raised"

-----------------------------------------------------------------------------
(* Operations on thread ids that no start() returned *)

\* the operations of Next, and resume/retry with an id the store holds
\* nothing for; the started run is driven with a single input here
NextAnyId ==
    \/ \E r \in StartIds : Start(r, "both")
    \/ \E r \in AllIds : NodeOk(r)
    \/ \E r \in AllIds : NodeRaise(r)
    \/ \E r \in started, h \in UnknownInputs : Resume(r, h)
    \/ \E r \in UnknownIds, h \in UnknownInputs :
          ~ckpt[r].exists /\ Resume(r, h)
    \/ \E r \in UnknownIds : ~ckpt[r].exists /\ Retry(r)
    \/ \E r \in AllIds : GetStatus(r)
    \/ \E r \in AllIds : GetState(r)

SpecAnyId == Init /\ [][NextAnyId]_vars

\* C9: resume, get_status, get_state and retry with a thread id for which
\* no run was started fail with a not-found error and create no state for
\* that id.
C9_UnknownRunNotFound ==
    \A r \in AllIds \ started :
       /\ ~ckpt[r].exists
       /\ (event.id = r
             /\ event.kind \in {"resume", "retry", "get_status", "get_state"})
          => event.res = "not_found"

-----------------------------------------------------------------------------
(* route_after_critic as a function of its inputs *)

\* largest rewrite_count handed to the router
MaxRouteCount == 5

RouteInputs ==
    { [critic_feedback |-> cf, rewrite_count |-> rc, blog_config |-> bc] :
        cf \in {<< >>} \cup { <<[verdict |-> v, draft |-> 1]>> : v \in Verdicts },
        rc \in {<< >>} \cup { <<k>> : k \in 0..MaxRouteCount },
        bc \in {<< >>} \cup { <<l>> : l \in Languages } }

RouteState(i) ==
    [EmptyState EXCEPT !["critic_feedback"] = i.critic_feedback,
                       !["rewrite_count"] = i.rewrite_count,
                       !["blog_config"] = i.blog_config]

InitRoute ==
    /\ \E i \in RouteInputs :
          ckpt = [r \in AllIds |->
                    IF r = "r1"
                    THEN [exists |-> TRUE, values |-> RouteState(i),
                          next |-> "none", last |-> "critic"]
                    ELSE NoCkpt]
    /\ phase = [r \in AllIds |-> "none"]
    /\ outcome = [r \in AllIds |-> "none"]
    /\ event = Event("init", "none", "none", "none", NoStatus)
    /\ hist = [r \in AllIds |-> NoHist]
    /\ started = {}

\* the router is called on the state; its answer is recorded
RouteAfterCritic(r) ==
    /\ ckpt[r].exists
    /\ event' = Event("route_after_critic", r,
                      route_after_critic(ckpt[r].values), "ok", NoStatus)
    /\ UNCHANGED <<ckpt, phase, outcome, hist, started>>

NextRoute == \E r \in AllIds : RouteAfterCritic(r)

SpecRoute == InitRoute /\ [][NextRoute]_vars

\* C5: route_after_critic answers writer exactly for FAIL with
\* rewrite_count below MAX_REWRITE_ATTEMPTS; PASS, and FAIL at or above the
\* ceiling, go forward, which is editor for ko-only and translator
\* otherwise; the stored state is untouched.
C5_RouteAfterCritic ==
    [][\A r \in AllIds :
          (event'.kind = "route_after_critic" /\ event'.id = r) =>
             LET s == ckpt[r].values
                 v == verdict(r)
                 rc == rewrite_count(r)
                 fwd == IF s["blog_config"] = <<"ko-only">>
                        THEN "editor" ELSE "translator"
             IN  /\ v = "PASS" => event'.node = fwd
                 /\ (v = "FAIL" /\ rc < MAX_REWRITE_ATTEMPTS)
                       => event'.node = "writer"
                 /\ (v = "FAIL" /\ rc >= MAX_REWRITE_ATTEMPTS)
                       => event'.node = fwd
                 /\ ckpt' = ckpt]_vars

\* FAIL above the ceiling in a ko-only run goes to the editor
C5_Witness ==
    /\ event.kind = "route_after_critic" /\ event.id = "r1"
    /\ verdict("r1") = "FAIL"
    /\ rewrite_count("r1") = MAX_REWRITE_ATTEMPTS + 1
    /\ ckpt["r1"].values["blog_config"] = <<"ko-only">>
    /\ event.node = "editor"

-----------------------------------------------------------------------------
(* A critic that fails every draft, nodes that never raise, and a human    *)
(* who answers each gate with that gate's input while the run waits there  *)

OutlineApprovals ==
    { h \in OutlineInputs : h["outline_decision"] \in {"APPROVE", "EDIT"} }

AtGate(r, g) == phase[r] = "interrupt" /\ ckpt[r].next = g

NextAlwaysFail ==
    \/ \E r \in StartIds, lang \in Languages : Start(r, lang)
    \/ \E r \in AllIds : NodeOkV(r, {"FAIL"})
    \/ \E r \in started, h \in OutlineApprovals :
          AtGate(r, "outline_review") /\ Resume(r, h)
    \/ \E r \in started, h \in PublishInputs :
          AtGate(r, "publish_review") /\ Resume(r, h)
    \/ \E r \in AllIds : GetStatus(r)

\* the stream loop of a call in flight keeps executing nodes
SpecAlwaysFail ==
    /\ Init /\ [][NextAlwaysFail]_vars
    /\ WF_vars(\E r \in AllIds : NodeOkV(r, {"FAIL"}))

\* C6: with a critic that always fails, rewrite_count only ever steps from
\* k to k+1, the writer never completes more than MAX_REWRITE_ATTEMPTS + 1
\* times, and an approved run eventually pauses before publish_review with
\* rewrite_count = MAX_REWRITE_ATTEMPTS after passing translator/editor.
C6_AlwaysFailTerminates ==
    /\ [][\A r \in started :
             rewrite_count(r)' \in {rewrite_count(r), rewrite_count(r) + 1}]_vars
    /\ [](\A r \in AllIds : hist[r].writer <= MAX_REWRITE_ATTEMPTS + 1)
    /\ \A r \in StartIds :
          (phase[r] = "running" /\ ckpt[r].next = "outline_review")
             ~> (/\ AtGate(r, "publish_review")
                 /\ rewrite_count(r) = MAX_REWRITE_ATTEMPTS
                 /\ hist[r].writer = MAX_REWRITE_ATTEMPTS + 1
                 /\ Has(ckpt[r].values, "edited_draft_ko")
                       \/ Has(ckpt[r].values, "edited_draft_en"))

\* the always-failed run waits before publish_review after three rewrites
C6_Witness ==
    /\ AtGate("r1", "publish_review")
    /\ verdict("r1") = "FAIL"
    /\ rewrite_count("r1") = 3
    /\ hist["r1"].writer = 4
    /\ ckpt["r1"].values["draft_en"] = <<4>>

-----------------------------------------------------------------------------
(* Recovery: retry *)

\* C11: retry() on a stuck run leaves the checkpoint exactly as it was and
\* sets the loop running on the node that failed; the first node to execute
\* after the retry is that node, and when it completes the checkpoint is the
\* old state overlaid with that node's update only.
C11_RetryRunsFailedNode ==
    [][\A r \in AllIds :
          /\ (event'.kind = "retry" /\ event'.id = r /\ phase[r] = "error")
                => /\ ckpt'[r] = ckpt[r]
                   /\ ckpt[r].next = hist[r].failed
                   /\ phase'[r] = "running"
                   /\ event'.res = "pending"
          /\ (/\ event.kind = "retry" /\ event.id = r
              /\ hist[r].failed # "none"
              /\ event'.kind = "node" /\ event'.id = r)
                => /\ event'.node = hist[r].failed
                   /\ event'.res = "ok" =>
                        /\ ckpt'[r].last = hist[r].failed
                        /\ \E v \in Verdicts,
                              po \in OutcomesOf(hist[r].failed,
                                                ckpt[r].values) :
                             ckpt'[r].values =
                                Merge(ckpt[r].values,
                                      NodeUpdate(hist[r].failed, ckpt[r].values,
                                                 v, hist[r].writer + 1,
                                                 po))]_vars

\* a retry has set a run going again whose critic had raised
C11_Witness ==
    /\ event.kind = "retry" /\ event.id = "r1" /\ event.res = "pending"
    /\ phase["r1"] = "running"
    /\ hist["r1"].failed = "critic"
    /\ ckpt["r1"].next = "critic"
    /\ rewrite_count("r1") = 1

-----------------------------------------------------------------------------
(* Addressability of runs *)

\* C12: every run that exists in the checkpoint store and whose start() call
\* is over has had its identifier handed back by start(), so its caller can
\* query and retry it.
C12_StartedRunAddressable ==
    \A r \in AllIds :
       (ckpt[r].exists /\ r \in started /\ hist[r].call # "start")
          => hist[r].handed

-----------------------------------------------------------------------------
(* Language branch *)

language(r) == output_language(ckpt[r].values)

\* C13: in a ko-only run the translator never executes and the critic's
\* forward route is editor; in an en-only or both run the critic's forward
\* route is translator, the translator completes at most once, never before
\* a rewrite, and the editor completes only after exactly one translation,
\* made from the draft of the last critic evaluation.
C13_LanguageSkip ==
    /\ [](\A r \in started :
            /\ (IsNodeEvent(r) /\ event.node = "translator")
                  => language(r) # "ko-only"
            /\ language(r) = "ko-only" => hist[r].translator = 0
            /\ hist[r].translator <= 1
            /\ (IsNodeEvent(r) /\ event.node = "critic" /\ event.res = "ok"
                   /\ ckpt[r].next # "writer")
                  => ckpt[r].next = IF language(r) = "ko-only"
                                    THEN "editor" ELSE "translator"
            /\ (IsNodeEvent(r) /\ event.node = "editor" /\ event.res = "ok"
                   /\ language(r) # "ko-only")
                  => /\ hist[r].translator = 1
                     /\ ckpt[r].values["draft_en"] = ckpt[r].values["draft_ko"]
                     /\ ckpt[r].values["critic_feedback"][1].draft
                           = ckpt[r].values["draft_en"][1])
    /\ [][\A r \in started :
            /\ (event'.kind = "node" /\ event'.id = r
                   /\ event'.node \in {"writer", "fact_checker", "critic"})
                  => hist[r].translator = 0
            /\ (event'.kind = "node" /\ event'.id = r /\ event'.res = "ok"
                   /\ event'.node = "translator")
                  => ckpt[r].last = "critic"]_vars

\* an en-only run that was rewritten twice has been translated once and
\* edited
C13_Witness ==
    /\ IsNodeEvent("r1") /\ event.node = "editor" /\ event.res = "ok"
    /\ language("r1") = "en-only"
    /\ hist["r1"].translator = 1
    /\ rewrite_count("r1") = 2
    /\ ckpt["r1"].values["draft_en"] = <<3>>

-----------------------------------------------------------------------------
(* Graph order *)

\* C14: a node completes only directly after one of its predecessors in the
\* graph (research_planner first, writer after outline_review or after a
\* critic that routed back, fact_checker after writer, critic after
\* fact_checker, translator after critic, editor after translator or critic,
\* seo_optimizer after editor, publish_review after seo_optimizer, publish
\* after publish_review), and what it writes is computed from the newest
\* values of the nodes before it, as read from the checkpoint.
C14_GraphOrder ==
    /\ [][\A r \in AllIds :
            (event'.kind = "node" /\ event'.id = r /\ event'.res = "ok")
               => LET n == event'.node
                      before == ckpt[r].last
                  IN  /\ n = ckpt[r].next
                      /\ CASE n = "research_planner" -> before = START
                           [] n = "outline_review" ->
                                 before = "research_planner"
                           [] n = "writer" ->
                                 before \in {"outline_review", "critic"}
                           [] n = "fact_checker" -> before = "writer"
                           [] n = "critic" -> before = "fact_checker"
                           [] n = "translator" -> before = "critic"
                           [] n = "editor" ->
                                 before \in {"translator", "critic"}
                           [] n = "seo_optimizer" -> before = "editor"
                           [] n = "publish_review" ->
                                 before = "seo_optimizer"
                           [] n = "publish" -> before = "publish_review"
                           [] OTHER -> FALSE
                      /\ ckpt'[r].last = n]_vars
    /\ [](\A r \in AllIds :
            (IsNodeEvent(r) /\ event.res = "ok")
               => LET s == ckpt[r].values
                      n == event.node
                  IN  /\ Has(s, "sources") /\ Has(s, "outline")
                      /\ n = "writer" => s["draft_ko"] = <<hist[r].writer>>
                      /\ n = "fact_checker" =>
                            s["fact_check"] = <<hist[r].writer>>
                      /\ n = "critic" =>
                            /\ s["critic_feedback"][1].draft = hist[r].writer
                            /\ s["fact_check"] = <<hist[r].writer>>
                      /\ n = "translator" =>
                            s["draft_en"] = <<hist[r].writer>>
                      /\ n = "editor" =>
                            /\ Has(s, "edited_draft_ko")
                                  => s["edited_draft_ko"] = <<hist[r].writer>>
                            /\ Has(s, "edited_draft_en")
                                  => s["edited_draft_en"] = <<hist[r].writer>>
                            /\ Has(s, "edited_draft_ko")
                                  \/ Has(s, "edited_draft_en")
                      /\ n = "seo_optimizer" =>
                            /\ Has(s, "final_post_ko")
                                  => s["final_post_ko"] = <<hist[r].writer>>
                            /\ Has(s, "final_post_en")
                                  => s["final_post_en"] = <<hist[r].writer>>
                            /\ Has(s, "final_post_ko")
                                  \/ Has(s, "final_post_en"))

\* the publish node has completed after a run with one rewrite: every node
\* before it has completed and the final post is the second draft
C14_Witness ==
    /\ IsNodeEvent("r1") /\ event.node = "publish" /\ event.res = "ok"
    /\ ckpt["r1"].last = "publish"
    /\ hist["r1"].writer = 2
    /\ ckpt["r1"].values["final_post_ko"] = <<2>>
    /\ ckpt["r1"].values["final_post_en"] = <<2>>

-----------------------------------------------------------------------------
(* Publishing *)

\* C15: an execution of the publish node calls publish_post exactly once for
\* each target marked publish=True that has a body and for no other
\* language, and calls commit_and_push exactly once if at least one
\* publish_post call succeeded and not at all otherwise.
C15_PublishCalls ==
    \A r \in AllIds :
       (IsNodeEvent(r) /\ event.node = "publish")
          => /\ \A l \in {"ko", "en"} :
                   event.pub.calls[l] =
                      IF l \in jekyll_targets(ckpt[r].values) THEN 1 ELSE 0
             /\ event.pub.commits = IF event.pub.urls # {} THEN 1 ELSE 0

-----------------------------------------------------------------------------
(* rewrite_count *)

\* C16: in every reachable state 0 <= rewrite_count <= MAX_REWRITE_ATTEMPTS,
\* and no step of any operation, node, failure or retry lowers it.
C16_RewriteCountMonotone ==
    /\ [](\A r \in AllIds :
            /\ 0 <= rewrite_count(r)
            /\ rewrite_count(r) <= MAX_REWRITE_ATTEMPTS
            /\ ckpt[r].exists /\ r \in started
                  => Has(ckpt[r].values, "rewrite_count"))
    /\ [][\A r \in AllIds : rewrite_count(r)' >= rewrite_count(r)]_vars

\* the critic has raised on the draft of the last allowed rewrite
C16_Witness ==
    /\ IsNodeEvent("r1") /\ event.node = "critic" /\ event.res = "raised"
    /\ rewrite_count("r1") = MAX_REWRITE_ATTEMPTS
    /\ hist["r1"].writer = MAX_REWRITE_ATTEMPTS + 1

-----------------------------------------------------------------------------
(* State merge *)

\* C17: a step changes the stored state of a run only by overlaying the
\* update of the node that completed, or the human_input of the resume, on
\* it: named fields take the update's value, every other field keeps its
\* value, no present field becomes absent, and operations that carry no
\* update (retry, get_status, get_state, a raising node) change nothing.
C17_StateMerge ==
    [][\A r \in AllIds :
         LET s == ckpt[r].values
             t == ckpt'[r].values
             e == event'
         IN  /\ \A f \in Fields : Has(s, f) => Has(t, f)
             /\ (e.id # r \/ e.kind \in {"retry", "get_status", "get_state"}
                    \/ (e.kind = "node" /\ e.res = "raised"))
                   => t = s
             /\ (e.id = r /\ e.kind = "resume")
                   => \E h \in HumanInputs :
                         /\ \A f \in DOMAIN h : t[f] = <<h[f]>>
                         /\ \A f \in Fields \ DOMAIN h : t[f] = s[f]
             /\ (e.id = r /\ e.kind = "node" /\ e.res = "ok")
                   => \E v \in Verdicts, po \in OutcomesOf(e.node, s) :
                        LET u == NodeUpdate(e.node, s, v, hist[r].writer + 1,
                                            po)
                        IN  /\ \A f \in DOMAIN u : t[f] = <<u[f]>>
                            /\ \A f \in Fields \ DOMAIN u : t[f] = s[f]
             /\ get_state(ckpt'[r]) = t]_vars

\* the resume at the publish gate has overlaid its two fields on a state
\* in which every field of the earlier nodes is still present
C17_Witness ==
    /\ event.kind = "resume" /\ event.id = "r1"
    /\ ckpt["r1"].values["publish_decision"] = <<"APPROVE">>
    /\ ckpt["r1"].values["publish_targets"] = <<{"ko"}>>
    /\ ckpt["r1"].values["outline_decision"] = <<"EDIT">>
    /\ ckpt["r1"].values["final_post_ko"] = <<2>>
    /\ ckpt["r1"].values["sources"] = <<"r1">>

-----------------------------------------------------------------------------
(* Writers of the state fields *)

\* C18: a field that one step has written (a node, the seed of start, or the
\* human input of resume) is never written by a different step afterwards.
C18_SingleWriter ==
    [][\A r \in AllIds, f \in Fields :
          hist[r].owner[f] # "none"
             => hist'[r].owner[f] = hist[r].owner[f]]_vars

\* C18 (amended): every field other than current_step and rewrite_count is
\* written by one step only; rewrite_count is seeded by start and afterwards
\* written by the writer only; current_step is seeded by start and written
\* by the eight agent nodes, never by a review node or by resume.
C18_SingleWriterExcept ==
    /\ [][\A r \in AllIds, f \in Fields \ {"current_step", "rewrite_count"} :
             hist[r].owner[f] # "none"
                => hist'[r].owner[f] = hist[r].owner[f]]_vars
    /\ [](\A r \in AllIds :
            /\ hist[r].owner["rewrite_count"] \in {"none", "start", "writer"}
            /\ hist[r].owner["current_step"]
                  \in ({"none", "start"} \cup (Nodes \ HITL_NODES))
            /\ \A f \in Fields :
                  Has(ckpt[r].values, f) <=> hist[r].owner[f] # "none")

\* the translator has completed after a rewrite: the writer has written
\* draft_ko twice and rewrite_count over the seed of start, and current_step
\* has passed from node to node
C18_Witness ==
    /\ hist["r1"].writer = 2
    /\ hist["r1"].owner["draft_ko"] = "writer"
    /\ hist["r1"].owner["rewrite_count"] = "writer"
    /\ hist["r1"].owner["draft_en"] = "translator"
    /\ hist["r1"].owner["current_step"] = "translator"
    /\ hist["r1"].owner["sources"] = "start"
    /\ hist["r1"].owner["outline_decision"] = "resume"

-----------------------------------------------------------------------------
(* current_step *)

\* C19: after every node completion, current_step in the stored state is
\* the name of the node that has just completed, for each of the ten nodes.
C19_CurrentStepIsLastNode ==
    \A r \in AllIds :
       (IsNodeEvent(r) /\ event.res = "ok")
          => /\ ckpt[r].last = event.node
             /\ Get(ckpt[r].values, "current_step", "unknown") = event.node

-----------------------------------------------------------------------------
(* Two runs side by side *)

\* the gate forms used when two runs are driven side by side
TwoRunInputs ==
    { ("outline_decision" :> "APPROVE") @@ ("outline_human_notes" :> ""),
      ("publish_decision" :> "APPROVE") @@ ("publish_targets" :> {"ko"}) }

\* start() may mint either thread id; the node steps of the two runs, the
\* resumes of their pauses and the retries of their failures interleave
\* freely
NextTwoRuns ==
    \/ \E r \in AllIds : Start(r, "ko-only")
    \/ \E r \in AllIds : NodeOkV(r, {"PASS"})
    \/ \E r \in AllIds : NodeRaise(r)
    \/ \E r \in started, h \in TwoRunInputs :
          phase[r] = "interrupt" /\ Resume(r, h)
    \/ \E r \in started : phase[r] = "error" /\ Retry(r)

SpecTwoRuns == Init /\ [][NextTwoRuns]_vars

\* C20: a step of an operation or node of one run leaves the checkpoint
\* (state, pending node, last node), the loop position and the call outcome
\* of every other run as they were, and every value a run holds was derived
\* from its own sources.
C20_RunIsolation ==
    /\ [][\A b \in AllIds :
            event'.id # b
               => /\ ckpt'[b] = ckpt[b]
                  /\ phase'[b] = phase[b]
                  /\ outcome'[b] = outcome[b]
                  /\ hist'[b] = hist[b]]_vars
    /\ [](\A b \in AllIds :
            /\ ckpt[b].exists => b \in started
            /\ b \in started =>
                  /\ ckpt[b].values["sources"] = <<b>>
                  /\ Has(ckpt[b].values, "outline")
                        => /\ ckpt[b].values["outline"] = <<b>>
                           /\ ckpt[b].values["research_summary"] = <<b>>
                  /\ Has(ckpt[b].values, "draft_ko")
                        => ckpt[b].values["draft_ko"] = <<hist[b].writer>>)

\* both runs exist at different places: one has published, the other is
\* stuck at its writer, and a step of the first was the last thing to happen
C20_Witness ==
    /\ started = {"r1", "zz"}
    /\ event.id = "r1" /\ IsNodeEvent("r1") /\ event.node = "publish"
    /\ ckpt["r1"].last = "publish"
    /\ phase["zz"] = "error" /\ ckpt["zz"].next = "writer"
    /\ ckpt["zz"].values["outline"] = <<"zz">>
    /\ ckpt["r1"].values["outline"] = <<"r1">>

-----------------------------------------------------------------------------
(* The web layer: requests against a run whose call is still in flight *)

\* the forms a browser can submit again while the first submission runs
WebInputs ==
    { ("outline_decision" :> "APPROVE") @@ ("outline_human_notes" :> ""),
      ("publish_decision" :> "APPROVE") @@ ("publish_targets" :> {"ko"}) }

\* outline_decision / publish_decision handler reached while a resume or
\* retry of the same run is executing its pending node in a worker thread:
\* nothing holds the request back; update_state merges the form and a second
\* stream loop starts on the node the stored snapshot has pending.  The run
\* is followed up to this point only.
WebResumeInFlight(r, human_input) ==
    /\ phase[r] = "running"
    /\ hist[r].call # "start"
    /\ hist[r].second = "none"
    /\ LET c2 == update_state(ckpt[r], human_input)
       IN  /\ c2.next # "none"
           /\ ckpt' = put(ckpt, r, c2)
           /\ hist' = [hist EXCEPT
                 ![r].second = c2.next,
                 ![r].owner = Owners(@, human_input, "resume")]
    /\ event' = Event("resume", r, "none", "pending", NoStatus)
    /\ UNCHANGED <<phase, outcome, started>>

\* retry_pipeline handler reached while a call of the same run is in flight
WebRetryInFlight(r) ==
    /\ phase[r] = "running"
    /\ hist[r].call # "start"
    /\ hist[r].second = "none"
    /\ ckpt[r].next # "none"
    /\ hist' = [hist EXCEPT ![r].second = ckpt[r].next]
    /\ event' = Event("retry", r, "none", "pending", NoStatus)
    /\ UNCHANGED <<ckpt, phase, outcome, started>>

\* one run driven through the web handlers; the first loop's steps are
\* followed while it is the only one
NextWeb ==
    \/ \E r \in StartIds : Start(r, "ko-only")
    \/ \E r \in StartIds : hist[r].second = "none" /\ NodeOkV(r, {"PASS"})
    \/ \E r \in StartIds : hist[r].second = "none" /\ NodeRaise(r)
    \/ \E r \in started, h \in WebInputs :
          hist[r].second = "none" /\ phase[r] = "interrupt" /\ Resume(r, h)
    \/ \E r \in started :
          hist[r].second = "none" /\ phase[r] = "error" /\ Retry(r)
    \/ \E r \in started, h \in WebInputs : WebResumeInFlight(r, h)
    \/ \E r \in started : WebRetryInFlight(r)

SpecWeb == Init /\ [][NextWeb]_vars

\* C21: for a run driven through the web handlers at most one call is in
\* flight: no second stream loop is ever started on a run whose pending node
\* is being executed by a call in flight.
C21_WebSerialized ==
    \A r \in AllIds :
       /\ hist[r].second = "none"
       /\ ~(phase[r] = "running" /\ hist[r].second = ckpt[r].next)

-----------------------------------------------------------------------------
(* Routing without critic feedback *)

\* C23: on a state without critic_feedback route_after_critic answers (it
\* does not raise) and its answer is the forward branch, editor for ko-only
\* and translator otherwise, whatever rewrite_count is and also when
\* rewrite_count or blog_config is missing.
C23_RouteWithoutFeedback ==
    \A r \in AllIds :
       (event.kind = "route_after_critic" /\ event.id = r
           /\ ~Has(ckpt[r].values, "critic_feedback"))
          => /\ event.res = "ok"
             /\ event.node # "writer"
             /\ event.node = IF ckpt[r].values["blog_config"] = <<"ko-only">>
                             THEN "editor" ELSE "translator"

\* no feedback, rewrite_count below the ceiling, ko-only: editor
C23_Witness ==
    /\ event.kind = "route_after_critic" /\ event.id = "r1"
    /\ ~Has(ckpt["r1"].values, "critic_feedback")
    /\ ckpt["r1"].values["rewrite_count"] = <<1>>
    /\ ckpt["r1"].values["blog_config"] = <<"ko-only">>
    /\ event.node = "editor"

-----------------------------------------------------------------------------
(* The gate routers as functions *)

Decisions == {"APPROVE", "EDIT", "REJECT"}

\* states the gate routers are called on: every decision at either gate,
\* missing or present, with the other fields varying
GateInputs ==
    { [outline_decision |-> od, publish_decision |-> pd,
       outline_human_notes |-> nt, publish_targets |-> tg,
       blog_config |-> bc] :
        od \in {<< >>} \cup { <<d>> : d \in Decisions },
        pd \in {<< >>} \cup { <<d>> : d \in Decisions },
        nt \in {<< >>, <<"notes">>},
        tg \in {<< >>, <<{"ko"}>>},
        bc \in {<< >>, <<"ko-only">>} }

GateState(i) ==
    [EmptyState EXCEPT !["outline_decision"] = i.outline_decision,
                       !["publish_decision"] = i.publish_decision,
                       !["outline_human_notes"] = i.outline_human_notes,
                       !["publish_targets"] = i.publish_targets,
                       !["blog_config"] = i.blog_config]

InitGate ==
    /\ \E i \in GateInputs :
          ckpt = [r \in AllIds |->
                    IF r = "r1"
                    THEN [exists |-> TRUE, values |-> GateState(i),
                          next |-> "none", last |-> "none"]
                    ELSE NoCkpt]
    /\ phase = [r \in AllIds |-> "none"]
    /\ outcome = [r \in AllIds |-> "none"]
    /\ event = Event("init", "none", "none", "none", NoStatus)
    /\ hist = [r \in AllIds |-> NoHist]
    /\ started = {}

\* a gate router is called on the state; its answer is recorded
RouteAfterOutlineReview(r) ==
    /\ ckpt[r].exists
    /\ event' = Event("route_after_outline_review", r,
                      route_after_outline_review(ckpt[r].values), "ok",
                      NoStatus)
    /\ UNCHANGED <<ckpt, phase, outcome, hist, started>>

RouteAfterPublishReview(r) ==
    /\ ckpt[r].exists
    /\ event' = Event("route_after_publish_review", r,
                      route_after_publish_review(ckpt[r].values), "ok",
                      NoStatus)
    /\ UNCHANGED <<ckpt, phase, outcome, hist, started>>

NextGate ==
    \/ \E r \in AllIds : RouteAfterOutlineReview(r)
    \/ \E r \in AllIds : RouteAfterPublishReview(r)

SpecGate == InitGate /\ [][NextGate]_vars

\* C24: route_after_outline_review answers writer for APPROVE and for EDIT
\* and END for REJECT, route_after_publish_review answers publish for
\* APPROVE and END for REJECT, whatever the other fields hold (the other
\* gate's decision included), and neither call changes the stored state.
C24_GateRouting ==
    [][\A r \in AllIds :
          /\ (event'.kind = "route_after_outline_review" /\ event'.id = r) =>
                LET d == ckpt[r].values["outline_decision"]
                IN  /\ d \in {<<"APPROVE">>, <<"EDIT">>}
                          => event'.node = "writer"
                    /\ d = <<"REJECT">> => event'.node = END
                    /\ ckpt' = ckpt
          /\ (event'.kind = "route_after_publish_review" /\ event'.id = r) =>
                LET d == ckpt[r].values["publish_decision"]
                IN  /\ d = <<"APPROVE">> => event'.node = "publish"
                    /\ d = <<"REJECT">> => event'.node = END
                    /\ ckpt' = ckpt]_vars

\* EDIT at the outline gate goes to the writer although the publish
\* decision in the same state is REJECT
C24_Witness ==
    /\ event.kind = "route_after_outline_review" /\ event.id = "r1"
    /\ ckpt["r1"].values["outline_decision"] = <<"EDIT">>
    /\ ckpt["r1"].values["publish_decision"] = <<"REJECT">>
    /\ event.node = "writer"

-----------------------------------------------------------------------------
(* The fact checker's diff *)

\* longest issue list the LLM reports in one round
MaxIssues == 3

\* claim texts, ordered as their strings compare
ClaimTexts == {1, 2, 3}

\* issues_found of a FactCheckResult, each issue given by its claim text
IssueLists ==
    UNION { [1..n -> ClaimTexts] : n \in 0..MaxIssues }

Range(q) == { q[i] : i \in 1..Len(q) }

\* sorted(S) of a set of claim texts
RECURSIVE sorted(_)
sorted(S) ==
    IF S = {} THEN << >>
    ELSE LET m == CHOOSE x \in S : \A y \in S : x <= y
         IN  <<m>> \o sorted(S \ {m})

\* variant: resolved and new are taken the wrong way round
compute_diff_swap(previous, current) ==
    LET prev_claims == Range(previous)
        curr_claims == Range(current)
    IN  [resolved |-> sorted(curr_claims \ prev_claims),
         new |-> sorted(prev_claims \ curr_claims),
         remaining |-> sorted(prev_claims \cap curr_claims)]

\* FactCheckerAgent._compute_diff
compute_diff(previous, current) ==
    LET prev_claims == Range(previous)
        curr_claims == Range(current)
    IN  [resolved |-> sorted(prev_claims \ curr_claims),
         new |-> sorted(curr_claims \ prev_claims),
         remaining |-> sorted(prev_claims \cap curr_claims)]

\* FactCheckerAgent.run on state s when the LLM reports the issues current
fact_checker_run(s, current) ==
    LET result == ("fact_check" :> current)
                    @@ ("current_step" :> "fact_checker")
    IN  IF Has(s, "fact_check")
        THEN result @@ ("fact_check_diff" :>
                           compute_diff(s["fact_check"][1], current))
        ELSE result

\* a state in which the writer has just written the first draft
InitDiff ==
    /\ ckpt = [r \in AllIds |->
                 IF r = "r1"
                 THEN [exists |-> TRUE,
                       values |-> Merge(EmptyState,
                                        ("sources" :> "r1") @@ ("draft_ko" :> 1)
                                           @@ ("current_step" :> "writer")),
                       next |-> "fact_checker", last |-> "writer"]
                 ELSE NoCkpt]
    /\ phase = [r \in AllIds |-> "none"]
    /\ outcome = [r \in AllIds |-> "none"]
    /\ event = Event("init", "none", "none", "none", NoStatus)
    /\ hist = [r \in AllIds |-> NoHist]
    /\ started = {}

\* one round of the fact checker; its update is merged into the state
FactCheckerRun(r, current) ==
    /\ ckpt[r].exists
    /\ ckpt' = [ckpt EXCEPT
                  ![r].values = Merge(@, fact_checker_run(@, current))]
    /\ event' = Event("node", r, "fact_checker", "ok", NoStatus)
    /\ UNCHANGED <<phase, outcome, hist, started>>

NextDiff == \E r \in AllIds, current \in IssueLists : FactCheckerRun(r, current)

SpecDiff == InitDiff /\ [][NextDiff]_vars

\* C25: a round of the fact checker on a state that holds a fact_check
\* writes a diff whose resolved, new and remaining lists hold the claims
\* only in the previous list, only in the current list and in both; each
\* list is strictly ascending, the three are pairwise disjoint, resolved and
\* remaining together are the previous claims and new and remaining the
\* current ones; a round on a state without fact_check writes no diff.
C25_FactCheckDiff ==
    [][\A r \in AllIds :
          (event'.kind = "node" /\ event'.id = r
              /\ event'.node = "fact_checker") =>
             LET s == ckpt[r].values
                 t == ckpt'[r].values
             IN  IF Has(s, "fact_check")
                 THEN LET prev == Range(s["fact_check"][1])
                          curr == Range(t["fact_check"][1])
                          d == t["fact_check_diff"][1]
                          Asc(q) == \A i \in 1..(Len(q) - 1) : q[i] < q[i + 1]
                      IN  /\ Has(t, "fact_check_diff")
                          /\ Range(d.resolved) = prev \ curr
                          /\ Range(d.new) = curr \ prev
                          /\ Range(d.remaining) = prev \cap curr
                          /\ Asc(d.resolved) /\ Asc(d.new) /\ Asc(d.remaining)
                          /\ Range(d.resolved) \cap Range(d.new) = {}
                          /\ Range(d.resolved) \cap Range(d.remaining) = {}
                          /\ Range(d.new) \cap Range(d.remaining) = {}
                          /\ Range(d.resolved) \cup Range(d.remaining) = prev
                          /\ Range(d.new) \cup Range(d.remaining) = curr
                 ELSE ~Has(t, "fact_check_diff")]_vars

\* previous issues {1, 2} with a duplicate order, current issues {2, 3}:
\* resolved 1, new 3, remaining 2
C25_Witness ==
    /\ event.kind = "node" /\ event.node = "fact_checker"
    /\ ckpt["r1"].values["fact_check"] = << <<3, 2>> >>
    /\ ckpt["r1"].values["fact_check_diff"]
          = << [resolved |-> <<1>>, new |-> <<3>>, remaining |-> <<2>>] >>

-----------------------------------------------------------------------------
(* Ingestion in the web start handler *)

\* longest list of URLs in one form
MaxUrls == 2

\* what happens to one submitted item: its parser returns, its parser
\* raises, or the item is blank and is skipped
ParseResults == {"ok", "raise", "blank"}

\* a list of n submitted items, named by their position, with the result
\* of parsing each
FormItems(n, results) ==
    { [i \in 1..n |-> [name |-> i, parse |-> p[i]]] : p \in [1..n -> results] }

\* the submitted form
Forms ==
    [urls : UNION { FormItems(n, ParseResults) : n \in 0..MaxUrls },
     youtube_urls : UNION { FormItems(n, {"ok", "raise"}) : n \in 0..1 },
     pdfs : UNION { FormItems(n, {"ok", "raise"}) : n \in 0..1 }]

\* one of the three loops: every item that is not blank is parsed, a parsed
\* source is appended and a raising parser is logged
RECURSIVE parse_each(_, _)
parse_each(kind, q) ==
    IF q = << >> THEN << >>
    ELSE LET e == Head(q)
             rest == parse_each(kind, Tail(q))
         IN  IF e.parse = "ok"
             THEN <<[source_type |-> kind, origin |-> e.name]>> \o rest
             ELSE rest

\* variant: the PDFs are parsed before the URLs
collect_sources_pdffirst(form) ==
    parse_each("pdf", form.pdfs) \o parse_each("url", form.urls)
        \o parse_each("youtube", form.youtube_urls)

\* the sources list of start_pipeline after its three loops
collect_sources(form) ==
    parse_each("url", form.urls) \o parse_each("youtube", form.youtube_urls)
        \o parse_each("pdf", form.pdfs)

WebStartEvent(id, res, form) ==
    [kind |-> "web_start", id |-> id, node |-> "none", res |-> res,
     status |-> NoStatus, pub |-> NoPub, form |-> form]

\* POST /pipeline/start up to the call of runner.start, which seeds the run
\* r with the collected sources; without a source the form is shown again
start_pipeline(form, r, lang) ==
    LET sources == collect_sources(form)
    IN  IF sources = << >>
        THEN /\ event' = WebStartEvent("none", "no_sources", form)
             /\ UNCHANGED <<ckpt, phase, outcome, hist, started>>
        ELSE /\ r \notin started
             /\ ~ckpt[r].exists
             /\ LET seed == ("sources" :> sources) @@ ("blog_config" :> lang)
                              @@ ("rewrite_count" :> 0)
                              @@ ("current_step" :> "started")
                IN  /\ ckpt' = put(ckpt, r,
                                   [exists |-> TRUE,
                                    values |-> Merge(EmptyState, seed),
                                    next |-> Edges(START, seed),
                                    last |-> START])
                    /\ hist' = [hist EXCEPT
                                  ![r].call = "start",
                                  ![r].owner = Owners(@, seed, "start")]
             /\ phase' = [phase EXCEPT ![r] = "running"]
             /\ outcome' = [outcome EXCEPT ![r] = "pending"]
             /\ started' = started \cup {r}
             /\ event' = WebStartEvent(r, "pending", form)

\* the run ids appended to the session: those runner.start has returned
session == { r \in AllIds : hist[r].handed }

NextIngest ==
    \/ \E form \in Forms, r \in StartIds :
          start_pipeline(form, r, DefaultLanguage)
    \/ \E r \in StartIds : hist[r].call = "start" /\ NodeOkV(r, {"PASS"})
    \/ \E r \in StartIds : hist[r].call = "start" /\ NodeRaise(r)

SpecIngest == Init /\ [][NextIngest]_vars

\* C26: a request to the start handler either leaves runs and session as
\* they are, when no submitted item was parsed, or starts one run whose
\* sources are the parsed items in the order submitted (URLs, then YouTube
\* URLs, then PDFs), without the items whose parser raised.
C26_IngestionFailure ==
    [][event'.kind = "web_start" =>
          LET f == event'.form
              Tag(kind, q) == [i \in 1..Len(q) |->
                                 [source_type |-> kind, origin |-> q[i].name,
                                  parse |-> q[i].parse]]
              all == Tag("url", f.urls) \o Tag("youtube", f.youtube_urls)
                        \o Tag("pdf", f.pdfs)
              Parsed(e) == e.parse = "ok"
              ok == SelectSeq(all, Parsed)
              kept == [i \in 1..Len(ok) |->
                         [source_type |-> ok[i].source_type,
                          origin |-> ok[i].origin]]
          IN  IF kept = << >>
              THEN /\ ckpt' = ckpt
                   /\ started' = started
                   /\ session' = session
              ELSE /\ event'.id \in started' \ started
                   /\ ckpt'[event'.id].exists
                   /\ ckpt'[event'.id].values["sources"] = <<kept>>]_vars

\* the second URL's parser raised: the first URL, the video and the PDF
\* are the sources of the new run
C26_Witness ==
    /\ event.kind = "web_start"
    /\ Len(event.form.urls) = 2
    /\ event.form.urls[1].parse = "ok" /\ event.form.urls[2].parse = "raise"
    /\ event.id = "r1"
    /\ Len(ckpt["r1"].values["sources"][1]) = 3

-----------------------------------------------------------------------------
(* rewrite_count and the writer *)

\* C27: a completed writer step sets rewrite_count to its previous value
\* plus one when critic_feedback was in state and to 0 otherwise, no other
\* step changes rewrite_count, and in every reachable state rewrite_count is
\* the number of completed writer steps minus one (0 before the first).
C27_RewriteCountIsRewrites ==
    /\ [](\A r \in AllIds :
            rewrite_count(r) =
               IF hist[r].writer = 0 THEN 0 ELSE hist[r].writer - 1)
    /\ [][\A r \in AllIds :
            IF /\ event'.kind = "node" /\ event'.id = r
               /\ event'.node = "writer" /\ event'.res = "ok"
            THEN rewrite_count(r)' =
                    IF Has(ckpt[r].values, "critic_feedback")
                    THEN rewrite_count(r) + 1 ELSE 0
            ELSE rewrite_count(r)' = rewrite_count(r)]_vars

\* the second rewrite has just been written
C27_Witness ==
    /\ IsNodeEvent("r1") /\ event.node = "writer" /\ event.res = "ok"
    /\ hist["r1"].writer = 3
    /\ rewrite_count("r1") = 2

-----------------------------------------------------------------------------
(* The state start() returns in *)

\* C28: the step with which start() returns normally is the completion of
\* research_planner, the first node executed on the seeded state; it
\* leaves the run paused before outline_review (is_interrupted, next_node
\* outline_review, not stuck) with rewrite_count 0 and with the sources and
\* the blog_config of the seed.
C28_StartReturnsAtOutlineReview ==
    [][\A r \in AllIds :
          (hist[r].call = "start" /\ outcome'[r] = "returned") =>
             /\ ckpt[r].last = START /\ ckpt[r].next = "research_planner"
             /\ event' = Event("node", r, "research_planner", "ok", NoStatus)
             /\ ckpt'[r].last = "research_planner"
             /\ phase'[r] = "interrupt"
             /\ get_status(ckpt'[r]).is_interrupted
             /\ get_status(ckpt'[r]).next_node = "outline_review"
             /\ ~get_status(ckpt'[r]).is_stuck
             /\ ckpt'[r].values["rewrite_count"] = <<0>>
             /\ ckpt'[r].values["sources"] = <<r>>
             /\ ckpt'[r].values["sources"] = ckpt[r].values["sources"]
             /\ Has(ckpt'[r].values, "blog_config")
             /\ ckpt'[r].values["blog_config"] = ckpt[r].values["blog_config"]
             /\ hist'[r].writer = 0 /\ hist'[r].publish = 0
             /\ hist'[r].translator = 0]_vars

\* start() has just returned the id of a run configured for both languages
C28_Witness ==
    /\ event = Event("node", "r1", "research_planner", "ok", NoStatus)
    /\ outcome["r1"] = "returned"
    /\ hist["r1"].handed
    /\ phase["r1"] = "interrupt"
    /\ ckpt["r1"].values["blog_config"] = <<"both">>

-----------------------------------------------------------------------------
(* Agents and the tool response *)

\* most content blocks in one LLM message
MaxBlocks == 2

\* the parameters of BaseAgent.parse_tool_response besides self
parse_tool_response_params == {"message", "model_class"}

\* the keyword arguments an agent passes to parse_tool_response on top of
\* the message and the model class
parse_keywords(agent) ==
    IF agent \in {"critic", "seo_optimizer"}
    THEN {"_system_prompt", "_user_message", "_tools"}
    ELSE {}

\* the input of a tool_use block, with the model class whose schema it
\* satisfies ("none" when it satisfies none of them)
ToolInputs ==
    {[schema |-> "CriticFeedback", verdict |-> "PASS", score |-> 8],
     [schema |-> "CriticFeedback", verdict |-> "FAIL", score |-> 4],
     [schema |-> "SEOMetadata", verdict |-> "none", score |-> 0],
     [schema |-> "FactCheckResult", verdict |-> "none", score |-> 0],
     [schema |-> "none", verdict |-> "none", score |-> 0]}

Blocks ==
    { [type |-> "tool_use", input |-> i] : i \in ToolInputs }
        \cup {[type |-> "text", input |-> "body"]}

\* the messages call_llm returns
Messages == UNION { [1..n -> Blocks] : n \in 0..MaxBlocks }

NoValue == [schema |-> "none", verdict |-> "none", score |-> 0]

\* BaseAgent._extract_tool_input: the input of the first tool_use block
extract_tool_input(message) ==
    LET idx == { i \in 1..Len(message) : message[i].type = "tool_use" }
    IN  IF idx = {}
        THEN [raised |-> "ValueError", value |-> NoValue]
        ELSE LET first == CHOOSE i \in idx : \A j \in idx : i <= j
             IN  [raised |-> "none", value |-> message[first].input]

\* a call of BaseAgent.parse_tool_response(message, model_class, **keywords):
\* a keyword that names no parameter is a TypeError before the body runs;
\* the body validates the extracted input and re-raises a failed validation
parse_tool_response(message, model_class, keywords) ==
    IF ~(keywords \subseteq parse_tool_response_params)
    THEN [raised |-> "TypeError", value |-> NoValue]
    ELSE LET tool_input == extract_tool_input(message)
         IN  IF tool_input.raised # "none" THEN tool_input
             ELSE IF tool_input.value.schema = model_class THEN tool_input
             ELSE [raised |-> "ValidationError", value |-> NoValue]

\* BaseAgent.get_text_response: the text blocks of the message
get_text_response(message) ==
    LET IsText(b) == b.type = "text"
    IN  SelectSeq(message, IsText)

\* CriticAgent.run from the message call_llm returned
critic_run(s, message) ==
    LET feedback == parse_tool_response(message, "CriticFeedback",
                                        parse_keywords("critic"))
    IN  IF feedback.raised # "none"
        THEN [raised |-> feedback.raised, update |-> << >>]
        ELSE [raised |-> "none",
              update |-> ("critic_feedback" :> feedback.value)
                            @@ ("current_step" :> "critic")]

\* SEOOptimizerAgent._optimize of one draft from the message returned
optimize(draft, message) ==
    LET seo_metadata == parse_tool_response(message, "SEOMetadata",
                                            parse_keywords("seo_optimizer"))
        text == get_text_response(message)
    IN  [raised |-> seo_metadata.raised,
         seo |-> seo_metadata.value,
         final |-> IF text = << >> THEN draft ELSE text]

\* SEOOptimizerAgent.run: the Korean draft first, then the English one,
\* each only when present; used is the list of messages consumed
seo_optimizer_run(s, message_ko, message_en) ==
    LET results == ("current_step" :> "seo_optimizer")
        ko == optimize(Get(s, "edited_draft_ko", ""), message_ko)
        en == optimize(Get(s, "edited_draft_en", ""), message_en)
        with_ko == IF Has(s, "edited_draft_ko")
                   THEN results @@ ("seo_metadata_ko" :> ko.seo)
                           @@ ("final_post_ko" :> ko.final)
                   ELSE results
        used_ko == IF Has(s, "edited_draft_ko")
                   THEN <<message_ko>> ELSE << >>
    IN  IF Has(s, "edited_draft_ko") /\ ko.raised # "none"
        THEN [raised |-> ko.raised, update |-> << >>, used |-> used_ko]
        ELSE IF ~Has(s, "edited_draft_en")
        THEN [raised |-> "none", update |-> with_ko, used |-> used_ko]
        ELSE IF en.raised # "none"
        THEN [raised |-> en.raised, update |-> << >>,
              used |-> used_ko \o <<message_en>>]
        ELSE [raised |-> "none",
              update |-> with_ko @@ ("seo_metadata_en" :> en.seo)
                            @@ ("final_post_en" :> en.final),
              used |-> used_ko \o <<message_en>>]

\* the states the two agents are run on: a checked draft for the critic,
\* any of the edited drafts for the SEO optimizer
AgentStates ==
    {[agent |-> "critic",
      values |-> Merge(EmptyState,
                       ("outline" :> "r1") @@ ("draft_ko" :> 1)
                          @@ ("fact_check" :> 1) @@ ("rewrite_count" :> 0))]}
    \cup
    { [agent |-> "seo_optimizer",
       values |-> Merge(EmptyState,
                        [f \in D |-> 1] @@ ("outline" :> "r1"))] :
         D \in SUBSET {"edited_draft_ko", "edited_draft_en"} }

InitAgents ==
    /\ \E a \in AgentStates :
          ckpt = [r \in AllIds |->
                    IF r = "r1"
                    THEN [exists |-> TRUE, values |-> a.values,
                          next |-> a.agent, last |-> "none"]
                    ELSE NoCkpt]
    /\ phase = [r \in AllIds |-> "none"]
    /\ outcome = [r \in AllIds |-> "none"]
    /\ event = Event("init", "none", "none", "none", NoStatus)
    /\ hist = [r \in AllIds |-> NoHist]
    /\ started = {}

AgentEvent(id, agent, res, messages) ==
    [kind |-> "agent", id |-> id, node |-> agent, res |-> res,
     status |-> NoStatus, pub |-> NoPub, messages |-> messages]

\* the agent's run() on the state of r; a returned update is merged
AgentDone(r, agent, out, messages) ==
    /\ IF out.raised # "none"
       THEN /\ event' = AgentEvent(r, agent, out.raised, messages)
            /\ UNCHANGED ckpt
       ELSE /\ event' = AgentEvent(r, agent, "ok", messages)
            /\ ckpt' = [ckpt EXCEPT ![r].values = Merge(@, out.update)]
    /\ UNCHANGED <<phase, outcome, hist, started>>

CriticRun(r, message) ==
    /\ ckpt[r].exists /\ ckpt[r].next = "critic"
    /\ AgentDone(r, "critic", critic_run(ckpt[r].values, message),
                 <<message>>)

\* what call_llm returns when it is called, and no message when it is not
LLM(called) == IF called THEN Messages ELSE {<< >>}

\* the English draft is sent to the LLM only after the Korean one, if
\* present, has been optimized
SEOOptimizerRun(r) ==
    /\ ckpt[r].exists /\ ckpt[r].next = "seo_optimizer"
    /\ LET s == ckpt[r].values
           has_ko == Has(s, "edited_draft_ko")
           has_en == Has(s, "edited_draft_en")
       IN  \E message_ko \in LLM(has_ko) :
              LET ko == optimize(Get(s, "edited_draft_ko", ""), message_ko)
              IN  \E message_en \in
                        LLM(has_en /\ ~(has_ko /\ ko.raised # "none")) :
                     LET out == seo_optimizer_run(s, message_ko, message_en)
                     IN  AgentDone(r, "seo_optimizer", out, out.used)

NextAgents ==
    \/ \E r \in AllIds, m \in Messages : CriticRun(r, m)
    \/ \E r \in AllIds : SEOOptimizerRun(r)

SpecAgents == InitAgents /\ [][NextAgents]_vars

\* C29: a run of the critic or of the SEO optimizer in which every message
\* the LLM returned has, as its first tool_use block, one whose input fits
\* the agent's model class, does not raise; the critic's update carries the
\* reported verdict and score with current_step = "critic", and the SEO
\* optimizer's update has seo_metadata and final_post for each edited draft
\* present.
C29_AgentsReturnUpdate ==
    \A r \in AllIds :
       (/\ event.kind = "agent" /\ event.id = r
        /\ \A i \in 1..Len(event.messages) :
              LET t == extract_tool_input(event.messages[i])
              IN  /\ t.raised = "none"
                  /\ t.value.schema = IF event.node = "critic"
                                      THEN "CriticFeedback" ELSE "SEOMetadata")
          => /\ event.res = "ok"
             /\ event.node = "critic" =>
                   /\ ckpt[r].values["critic_feedback"]
                         = <<extract_tool_input(event.messages[1]).value>>
                   /\ ckpt[r].values["current_step"] = <<"critic">>
             /\ event.node = "seo_optimizer" =>
                   \A l \in {"ko", "en"} :
                      Has(ckpt[r].values, "edited_draft_" \o l) =>
                         /\ Has(ckpt[r].values, "seo_metadata_" \o l)
                         /\ Has(ckpt[r].values, "final_post_" \o l)

-----------------------------------------------------------------------------
(* The happy path *)

\* a message whose first tool_use block fits the model class
WellFormed(model_class) ==
    { m \in Messages :
         /\ extract_tool_input(m).raised = "none"
         /\ extract_tool_input(m).value.schema = model_class }

\* the agent of node n, run on state s, returns its update for some
\* well-formed LLM response
AgentReturns(n, s) ==
    CASE n = "critic" ->
           \E m \in WellFormed("CriticFeedback") :
              critic_run(s, m).raised = "none"
      [] n = "seo_optimizer" ->
           \E m1, m2 \in WellFormed("SEOMetadata") :
              seo_optimizer_run(s, m1, m2).raised = "none"
      [] OTHER -> TRUE

\* every LLM response is well formed, the critic's verdict is PASS, and the
\* pause before outline_review is answered with an approval; a node returns
\* whenever its agent does and raises otherwise, and a failed run is retried
NextHappy ==
    \/ \E r \in StartIds, lang \in Languages : Start(r, lang)
    \/ \E r \in AllIds :
          /\ AgentReturns(ckpt[r].next, ckpt[r].values)
          /\ NodeOkV(r, {"PASS"})
    \/ \E r \in AllIds :
          /\ ~AgentReturns(ckpt[r].next, ckpt[r].values)
          /\ NodeRaise(r)
    \/ \E r \in started, h \in OutlineApprovals :
          AtGate(r, "outline_review") /\ Resume(r, h)
    \/ \E r \in started : phase[r] = "error" /\ Retry(r)
    \/ \E r \in StartIds : GetStatus(r)
    \/ \E r \in StartIds : GetState(r)

\* the stream loop of a call in flight keeps executing nodes, and the human
\* answers the pause
SpecHappy ==
    /\ Init /\ [][NextHappy]_vars
    /\ WF_vars(\E r \in AllIds :
                  /\ AgentReturns(ckpt[r].next, ckpt[r].values)
                  /\ NodeOkV(r, {"PASS"}))
    /\ WF_vars(\E r \in AllIds :
                  /\ ~AgentReturns(ckpt[r].next, ckpt[r].values)
                  /\ NodeRaise(r))
    /\ WF_vars(\E r \in started, h \in OutlineApprovals :
                  AtGate(r, "outline_review") /\ Resume(r, h))

\* C22: on the happy path a started run eventually ends published with no
\* pending node, after the writer, the translator (unless ko-only) and the
\* publish node have each completed once and every stage has left its
\* output; it is never stuck and no status ever reports it stuck while it is
\* halted.
C22_HappyPath ==
    /\ \A r \in StartIds :
          (r \in started)
             ~> (/\ phase[r] = "done"
                 /\ ckpt[r].next = "none"
                 /\ ckpt[r].last = "publish"
                 /\ hist[r].writer = 1
                 /\ hist[r].publish = 1
                 /\ hist[r].translator
                       = IF language(r) = "ko-only" THEN 0 ELSE 1
                 /\ \A f \in {"outline", "draft_ko", "fact_check",
                              "critic_feedback"} : Has(ckpt[r].values, f)
                 /\ Has(ckpt[r].values, "edited_draft_ko")
                       \/ Has(ckpt[r].values, "edited_draft_en")
                 /\ Has(ckpt[r].values, "final_post_ko")
                       \/ Has(ckpt[r].values, "final_post_en")
                 /\ language(r) # "ko-only" => Has(ckpt[r].values, "draft_en")
                 /\ rewrite_count(r) = 0)
    /\ [](\A r \in AllIds :
            /\ phase[r] # "error"
            /\ ~hist[r].rejected
            /\ (phase[r] # "running" /\ ckpt[r].exists)
                  => ~get_status(ckpt[r]).is_stuck)
    /\ [][\A r \in AllIds : phase[r] = "done" => phase'[r] = "done"]_vars

-----------------------------------------------------------------------------
(* call_llm and its retries *)

MAX_API_RETRIES == 3

\* how many successive answers of the API are fixed in advance
MaxResponses == 4

\* what one call of client.messages.create does: it returns a message or
\* raises a rate-limit error, an API status error or a connection error
Responses ==
    {[type |-> "message", status_code |-> 200],
     [type |-> "RateLimitError", status_code |-> 429],
     [type |-> "APIConnectionError", status_code |-> 0]}
    \cup [type : {"APIStatusError"}, status_code : {404, 499, 500, 529}]

NoResponse == [type |-> "none", status_code |-> 0]

\* variant: every API status error is retried
retryable_any(e) ==
    e.type \in {"RateLimitError", "APIStatusError"}

\* the except clauses of call_llm: the errors after which the loop goes on
retryable(e) ==
    \/ e.type = "RateLimitError"
    \/ e.type = "APIStatusError" /\ e.status_code >= 500

\* the loop of call_llm from iteration attempt on, where answers[i] is what
\* the i-th call of the API does; waits are the sleeps so far
RECURSIVE attempts(_, _, _, _)
attempts(answers, attempt, last_error, waits) ==
    IF attempt = MAX_API_RETRIES
    THEN [calls |-> attempt, outcome |-> "raised", value |-> last_error,
          waits |-> waits]
    ELSE LET e == answers[attempt + 1]
         IN  IF e.type = "message"
             THEN [calls |-> attempt + 1, outcome |-> "returned",
                   value |-> e, waits |-> waits]
             ELSE IF retryable(e)
             THEN attempts(answers, attempt + 1, e,
                           Append(waits, 2 ^ attempt))
             ELSE [calls |-> attempt + 1, outcome |-> "raised",
                   value |-> e, waits |-> waits]

\* BaseAgent.call_llm
call_llm(answers) == attempts(answers, 0, NoResponse, << >>)

\* the API's successive answers are fixed before call_llm is invoked
InitLLM ==
    /\ ckpt = [r \in AllIds |-> NoCkpt]
    /\ phase = [r \in AllIds |-> "none"]
    /\ outcome = [r \in AllIds |-> "none"]
    /\ \E answers \in [1..MaxResponses -> Responses] :
          event = [kind |-> "api", id |-> "none", node |-> "none",
                   res |-> "none", status |-> NoStatus, pub |-> NoPub,
                   answers |-> answers]
    /\ hist = [r \in AllIds |-> NoHist]
    /\ started = {}

\* one invocation of call_llm against the API
CallLLM ==
    /\ event.kind = "api"
    /\ event' = [event EXCEPT !.kind = "call_llm",
                              !.res = call_llm(event.answers)]
    /\ UNCHANGED <<ckpt, phase, outcome, hist, started>>

NextLLM == CallLLM

SpecLLM == InitLLM /\ [][NextLLM]_vars

\* C30: an invocation of call_llm calls the API between one and
\* MAX_API_RETRIES times; every call but the last ended in a rate-limit
\* error or a status error of 500 or above; a message ends the invocation
\* and is returned, any other error ends it and is raised, and the third
\* rate-limit or server error is raised as the last error.
C30_CallLLMRetries ==
    event.kind = "call_llm" =>
       LET q == event.answers
           out == event.res
           Retried(e) ==
              \/ e.type = "RateLimitError"
              \/ e.type = "APIStatusError" /\ e.status_code >= 500
           last == q[out.calls]
       IN  /\ out.calls \in 1..MAX_API_RETRIES
           /\ MAX_API_RETRIES = 3
           /\ \A i \in 1..(out.calls - 1) : Retried(q[i])
           /\ out.value = last
           /\ out.outcome = IF last.type = "message"
                            THEN "returned" ELSE "raised"
           /\ Retried(last) => out.calls = MAX_API_RETRIES

\* two server errors and a rate limit: the third error is raised although
\* a fourth call would have returned a message
C30_Witness ==
    /\ event.kind = "call_llm"
    /\ event.answers[1].status_code = 500
    /\ event.answers[2].status_code = 529
    /\ event.answers[3].type = "RateLimitError"
    /\ event.answers[4].type = "message"
    /\ event.res.calls = 3
    /\ event.res.outcome = "raised"
    /\ event.res.value.type = "RateLimitError"
    /\ event.res.waits = <<1, 2, 4>>

-----------------------------------------------------------------------------
(* Validation of the tool response *)

\* the fact checker's call_llm followed by parse_tool_response, where
\* messages[i] is what the i-th call of the LLM returns; calls counts the
\* messages asked for
fact_checker_parse(messages) ==
    LET parsed == parse_tool_response(messages[1], "FactCheckResult",
                                      parse_keywords("fact_checker"))
    IN  [raised |-> parsed.raised, value |-> parsed.value, calls |-> 1]

\* the LLM's first answer and the answer a second call would get
InitParse ==
    /\ ckpt = [r \in AllIds |-> NoCkpt]
    /\ phase = [r \in AllIds |-> "none"]
    /\ outcome = [r \in AllIds |-> "none"]
    /\ \E m1, m2 \in Messages :
          event = [kind |-> "llm", id |-> "none", node |-> "fact_checker",
                   res |-> "none", status |-> NoStatus, pub |-> NoPub,
                   messages |-> <<m1, m2>>]
    /\ hist = [r \in AllIds |-> NoHist]
    /\ started = {}

FactCheckerParse ==
    /\ event.kind = "llm"
    /\ event' = [event EXCEPT !.kind = "parse",
                              !.res = fact_checker_parse(event.messages)]
    /\ UNCHANGED <<ckpt, phase, outcome, hist, started>>

NextParse == FactCheckerParse

SpecParse == InitParse /\ [][NextParse]_vars

\* C31: when the input of the first answer's tool_use block fails
\* validation, the LLM is asked once more and the second answer's input is
\* returned if it validates; the call raises only if the second answer
\* fails too. An answer that validates is returned without a second call.
C31_ParseRetriesOnce ==
    event.kind = "parse" =>
       LET first == extract_tool_input(event.messages[1])
           second == extract_tool_input(event.messages[2])
           Valid(t) == t.raised = "none" /\ t.value.schema = "FactCheckResult"
           out == event.res
       IN  /\ Valid(first) =>
                out.raised = "none" /\ out.value = first.value /\ out.calls = 1
           /\ (first.raised = "none" /\ ~Valid(first)) =>
                /\ out.calls = 2
                /\ Valid(second) =>
                      out.raised = "none" /\ out.value = second.value
                /\ ~Valid(second) => out.raised # "none"

-----------------------------------------------------------------------------
(* Local output of the publish node *)

\* C32: an execution of the publish node in which no call raised anything
\* but PublishError calls save_posts once, with or without targets and
\* whether or not a PublishError was caught; if save_posts returns, the
\* node returns an update with current_step = "publish". Without a target
\* marked publish the publisher is not called and the update has no
\* blog_url.
C32_PublishAlwaysSaves ==
    \A r \in AllIds :
       (IsNodeEvent(r) /\ event.node = "publish") =>
          LET p == event.pub
              marked == Get(ckpt[r].values, "publish_targets", {})
          IN  /\ (p.caught \/ ~p.raised) => p.saves = 1
              /\ ~p.raised =>
                    /\ event.res = "ok"
                    /\ "current_step" \in DOMAIN p.update
                    /\ p.update["current_step"] = "publish"
                    /\ ckpt[r].values["current_step"] = <<"publish">>
              /\ marked = {} =>
                    /\ p.calls["ko"] = 0 /\ p.calls["en"] = 0
                    /\ p.commits = 0
                    /\ "blog_url_ko" \notin DOMAIN p.update
                    /\ "blog_url_en" \notin DOMAIN p.update
                    /\ p.saves = 1

\* the publisher raised PublishError for a marked target; the node saved
\* the local files and returned
C32_Witness ==
    /\ IsNodeEvent("r1") /\ event.node = "publish" /\ event.res = "ok"
    /\ Get(ckpt["r1"].values, "publish_targets", {}) # {}
    /\ event.pub.caught
    /\ event.pub.saves = 1
    /\ event.pub.urls = {}

-----------------------------------------------------------------------------
(* Human notes and the writer *)

\* the state fields WriterAgent.run puts into its prompt
writer_inputs(s) ==
    LET is_rewrite == Has(s, "critic_feedback")
        human_notes == Get(s, "outline_human_notes", "")
    IN  IF is_rewrite
        THEN {"critic_feedback", "draft_ko", "outline", "blog_config"}
                \cup (IF Has(s, "fact_check") THEN {"fact_check"} ELSE {})
        ELSE {"research_summary", "outline", "blog_config"}
                \cup (IF human_notes # "" THEN {"outline_human_notes"}
                      ELSE {})

\* C33: in a run whose outline gate was answered with EDIT and non-empty
\* notes, every execution of the writer, first write or rewrite, has
\* outline_human_notes among the inputs of its prompt; and the router
\* sends EDIT where it sends APPROVE.
C33_NotesReachEveryWrite ==
    [][\A r \in AllIds :
          (event'.kind = "node" /\ event'.id = r /\ event'.node = "writer")
             => LET s == ckpt[r].values
                IN  (/\ Get(s, "outline_decision", "none") = "EDIT"
                     /\ Get(s, "outline_human_notes", "") # "")
                       => /\ "outline_human_notes" \in writer_inputs(s)
                          /\ route_after_outline_review(s) =
                                route_after_outline_review(
                                   Merge(s, ("outline_decision" :> "APPROVE")))
      ]_vars

-----------------------------------------------------------------------------
(* Publishing effects over a run *)

\* a run for both languages whose drafts pass the critic and whose outline
\* is approved; the publish gate is answered in any way, and resume with a
\* publish decision and retry are called whenever no call is in flight
NextPublish ==
    \/ \E r \in StartIds : Start(r, "both")
    \/ \E r \in AllIds : NodeStep(r, {"PASS"}, TRUE)
    \/ \E r \in AllIds : NodeFail(r, TRUE)
    \/ \E r \in started :
          /\ AtGate(r, "outline_review")
          /\ Resume(r, ("outline_decision" :> "APPROVE")
                          @@ ("outline_human_notes" :> ""))
    \/ \E r \in started, h \in PublishInputs :
          ~AtGate(r, "outline_review") /\ Resume(r, h)
    \/ \E r \in started : Retry(r)

SpecPublish == Init /\ [][NextPublish]_vars

\* C34: in a run publish_post returns at most once for each language and
\* commit_and_push returns at most once, whatever resume and retry calls
\* are made.
C34_PublishEffectsOnce ==
    \A r \in AllIds :
       /\ hist[r].effects.ko <= 1
       /\ hist[r].effects.en <= 1
       /\ hist[r].effects.commit <= 1

-----------------------------------------------------------------------------
(* The draft the checks were made on *)

\* the version of the Korean draft held in the state s
draft_version(s) == s["draft_ko"][1]

\* C35: the fact checker completes only directly after the writer and the
\* critic only directly after the fact checker, each on the draft in state;
\* so when the critic's completion routes forward, fact_check and
\* critic_feedback were both made from the current draft_ko, and the
\* translator and the editor that follow work from that same draft.
C35_ChecksOnCurrentDraft ==
    [][\A r \in AllIds :
          (event'.kind = "node" /\ event'.id = r /\ event'.res = "ok") =>
             LET s == ckpt[r].values
                 t == ckpt'[r].values
                 n == event'.node
                 Checked(u) ==
                    /\ Has(u, "fact_check") /\ Has(u, "critic_feedback")
                    /\ u["fact_check"][1] = draft_version(u)
                    /\ u["critic_feedback"][1].draft = draft_version(u)
             IN  /\ n = "fact_checker" =>
                       /\ ckpt[r].last = "writer"
                       /\ t["fact_check"][1] = draft_version(s)
                 /\ n = "critic" =>
                       /\ ckpt[r].last = "fact_checker"
                       /\ t["critic_feedback"][1].draft = draft_version(s)
                       /\ ckpt'[r].next \in {"translator", "editor"}
                             => Checked(t)
                 /\ n = "translator" =>
                       /\ ckpt[r].last = "critic"
                       /\ Checked(s)
                       /\ t["draft_en"][1] = draft_version(s)
                 /\ n = "editor" =>
                       /\ ckpt[r].last \in {"critic", "translator"}
                       /\ Checked(s)
                       /\ draft_version(t) = draft_version(s)
                       /\ Has(t, "edited_draft_ko") =>
                             t["edited_draft_ko"][1] = draft_version(s)
                       /\ Has(t, "edited_draft_en") =>
                             t["edited_draft_en"][1] = draft_version(s)]_vars

\* after one rewrite the translator has translated the second draft, which
\* the fact checker has checked
C35_Witness ==
    /\ IsNodeEvent("r1") /\ event.node = "translator" /\ event.res = "ok"
    /\ hist["r1"].writer = 2
    /\ ckpt["r1"].values["draft_ko"] = <<2>>
    /\ ckpt["r1"].values["fact_check"] = <<2>>
    /\ ckpt["r1"].values["draft_en"] = <<2>>

-----------------------------------------------------------------------------
(* Blog URLs and the push *)

\* C36: an execution of the publish node puts blog_url_<lang> into its
\* update, and hands the URL of a language to save_posts, only when
\* commit_and_push has returned in that execution.
C36_BlogUrlOnlyWhenPushed ==
    \A r \in AllIds :
       (IsNodeEvent(r) /\ event.node = "publish") =>
          \A l \in {"ko", "en"} :
             /\ ("blog_url_" \o l) \in DOMAIN event.pub.update
                   => event.pub.pushed
             /\ (event.pub.saves = 1 /\ l \in event.pub.urls)
                   => event.pub.pushed

-----------------------------------------------------------------------------
(* Outputs per language *)

\* the languages save_posts writes a file for from state s
saved_posts(s) ==
    { l \in {"ko", "en"} :
         Has(s, "final_post_" \o l) \/ Has(s, "edited_draft_" \o l) }

-----------------------------------------------------------------------------
(* The critic's lenient criteria under a configured rewrite ceiling *)

MaxCeiling == 6

\* the values MAX_REWRITE_ATTEMPTS is configured to through the environment
Ceilings == 0..MaxCeiling

\* the round from which CriticAgent.run appends SYSTEM_PROMPT_LENIENT
LENIENT_ROUND == 3

\* the system prompt the critic builds for a draft of the given round
critic_system_prompt(round) ==
    [round |-> round, lenient |-> round >= LENIENT_ROUND]

\* route_after_critic's rewrite test for a configured ceiling
rewrite_allowed(v, round, ceiling) ==
    v = "FAIL" /\ round < ceiling

\* a run with its first draft written, under each configured ceiling
InitLenient ==
    /\ ckpt = [r \in AllIds |-> NoCkpt]
    /\ phase = [r \in AllIds |-> "none"]
    /\ outcome = [r \in AllIds |-> "none"]
    /\ \E c \in Ceilings :
          event = [kind |-> "ceiling", id |-> "none", node |-> "writer",
                   res |-> "none", status |-> NoStatus, pub |-> NoPub,
                   ceiling |-> c, rewrite_count |-> 0,
                   lenient |-> FALSE, verdict |-> "none"]
    /\ hist = [r \in AllIds |-> NoHist]
    /\ started = {}

\* the critic evaluates the draft the writer produced (the fact checker
\* between them leaves rewrite_count as it is)
CriticEvaluates ==
    /\ event.kind = "ceiling" /\ event.node = "writer"
    /\ \E v \in Verdicts :
          event' = [event EXCEPT
                       !.node = "critic",
                       !.lenient =
                          critic_system_prompt(event.rewrite_count).lenient,
                       !.verdict = v]
    /\ UNCHANGED <<ckpt, phase, outcome, hist, started>>

\* the conditional edge after the critic sends the run back to the writer
\* for a rewrite
WriterRewrites ==
    /\ event.kind = "ceiling" /\ event.node = "critic"
    /\ rewrite_allowed(event.verdict, event.rewrite_count, event.ceiling)
    /\ event' = [event EXCEPT !.node = "writer",
                              !.rewrite_count = event.rewrite_count + 1]
    /\ UNCHANGED <<ckpt, phase, outcome, hist, started>>

\* the conditional edge after the critic sends the run forward
CriticForwards ==
    /\ event.kind = "ceiling" /\ event.node = "critic"
    /\ ~rewrite_allowed(event.verdict, event.rewrite_count, event.ceiling)
    /\ event' = [event EXCEPT !.node = "forward"]
    /\ UNCHANGED <<ckpt, phase, outcome, hist, started>>

NextLenient == CriticEvaluates \/ WriterRewrites \/ CriticForwards

SpecLenient == InitLenient /\ [][NextLenient]_vars

\* C38: under every configured ceiling the critic's prompt carries the
\* lenient criteria exactly on the evaluations made with
\* rewrite_count >= the ceiling, those whose FAIL the router sends forward.
C38_LenientAtCeiling ==
    (event.kind = "ceiling" /\ event.node = "critic") =>
       /\ event.lenient <=> event.rewrite_count >= event.ceiling
       /\ event.lenient <=>
             ~rewrite_allowed("FAIL", event.rewrite_count, event.ceiling)

-----------------------------------------------------------------------------
(* The web layer: the session check of every pipeline route *)

DASHBOARD_PASSWORD == "change-me"

\* passwords posted to /login
Passwords == {DASHBOARD_PASSWORD, "guess"}

\* the routes that read or change a pipeline
Routes == {"dashboard", "start", "detail", "retry", "delete",
           "outline_decision", "publish_decision", "status"}

\* is_authenticated on the session a request carries
is_authenticated(request_session) == request_session.authenticated

\* whether the handler of the route goes on to its body for the session:
\* every handler but pipeline_status_fragment returns the redirect to
\* /login when is_authenticated is false
admits(route, request_session) ==
    IF route = "status" THEN TRUE ELSE is_authenticated(request_session)

\* the runner operations and session changes a handler body performs
HandlerEffects == {"start", "resume", "retry", "dashboard", "detail",
                   "status", "delete"}

\* POST /login: the session is marked authenticated for the configured
\* password only
WebLogin(password) ==
    /\ event' = [kind |-> "login", id |-> "none", node |-> "none",
                 res |-> IF password = DASHBOARD_PASSWORD
                         THEN "dashboard" ELSE "login",
                 status |-> NoStatus, pub |-> NoPub, route |-> "login",
                 authenticated |-> (password = DASHBOARD_PASSWORD)]
    /\ UNCHANGED <<ckpt, phase, outcome, hist, started>>

\* a request to a pipeline route for run r, carrying its session cookie: the
\* handler up to its session check
WebRequest(route, r, authenticated) ==
    /\ event' = [kind |-> "request", id |-> r, node |-> "none",
                 res |-> IF admits(route, [authenticated |-> authenticated])
                         THEN "admitted" ELSE "login",
                 status |-> NoStatus, pub |-> NoPub, route |-> route,
                 authenticated |-> authenticated]
    /\ UNCHANGED <<ckpt, phase, outcome, hist, started>>

Admitted(route, r) ==
    /\ event.kind = "request" /\ event.res = "admitted"
    /\ event.route = route /\ event.id = r

\* delete_pipeline past its session check: the id leaves the session's list
WebDelete(r) ==
    /\ event' = Event("delete", r, "none", "dashboard", NoStatus)
    /\ UNCHANGED <<ckpt, phase, outcome, hist, started>>

\* dashboard past its session check: the status of the session's runs
WebDashboard(r) ==
    /\ event' = Event("dashboard", r, "none", "dashboard", get_status(ckpt[r]))
    /\ UNCHANGED <<ckpt, phase, outcome, hist, started>>

\* pipeline_detail past its session check: the review page of the gate the
\* run is paused at, or the status page
WebDetail(r) ==
    /\ LET status == get_status(ckpt[r])
       IN  event' = Event("detail", r, "none",
                          IF status.is_interrupted
                          THEN IF status.next_node = "outline_review"
                               THEN "review_outline" ELSE "review_publish"
                          ELSE "pipeline_status",
                          status)
    /\ UNCHANGED <<ckpt, phase, outcome, hist, started>>

\* pipeline_status_fragment: the redirect fragment for a paused run, the
\* status bar otherwise
pipeline_status_fragment(r) ==
    /\ LET status == get_status(ckpt[r])
       IN  event' = Event("status", r, "none",
                          IF status.is_interrupted
                          THEN "hx-redirect" ELSE "status_bar",
                          status)
    /\ UNCHANGED <<ckpt, phase, outcome, hist, started>>

\* the body of the handler the pending request was admitted to
WebHandler(r) ==
    \/ Admitted("start", r) /\ Start(r, DefaultLanguage)
    \/ Admitted("retry", r) /\ Retry(r)
    \/ /\ Admitted("outline_decision", r)
       /\ Resume(r, ("outline_decision" :> "APPROVE")
                       @@ ("outline_human_notes" :> ""))
    \/ /\ Admitted("publish_decision", r)
       /\ Resume(r, ("publish_decision" :> "APPROVE")
                       @@ ("publish_targets" :> {"ko"}))
    \/ Admitted("dashboard", r) /\ WebDashboard(r)
    \/ Admitted("detail", r) /\ WebDetail(r)
    \/ Admitted("status", r) /\ pipeline_status_fragment(r)
    \/ Admitted("delete", r) /\ WebDelete(r)

\* one run behind the web application: logins, requests with and without
\* an authenticated session, and the run's own steps
NextAuth ==
    \/ \E p \in Passwords : WebLogin(p)
    \/ \E route \in Routes, r \in StartIds, a \in BOOLEAN :
          WebRequest(route, r, a)
    \/ \E r \in StartIds : WebHandler(r)
    \/ \E r \in StartIds : NodeOkV(r, {"PASS"})
    \/ \E r \in StartIds : NodeRaise(r)

SpecAuth == Init /\ [][NextAuth]_vars

\* C39: a login authenticates the session for the dashboard password only,
\* and a request to a pipeline route whose session is not authenticated is
\* followed by no handler body: no start, resume or retry is triggered, no
\* status is read for it and nothing is deleted.
C39_RoutesNeedSession ==
    [][ /\ event'.kind = "login" =>
              (event'.authenticated <=> event'.res = "dashboard")
        /\ (event.kind = "request" /\ ~event.authenticated) =>
              event'.kind \notin HandlerEffects ]_vars

====
